---- MODULE Spec2Model ----
(***************************************************************************)
(* A model of the Mathdoku OCR pipeline of src/ocr/ocr_mathdoku.py:        *)
(* grid location, size selection and line fitting, cage grouping by        *)
(* union-find, label reading with its recovery passes, and the assembly    *)
(* of the result document.  Image operations (OpenCV, the OCR engine) are  *)
(* inputs chosen from small sets; everything the Python code computes      *)
(* from them is computed here the way the code computes it.                *)
(***************************************************************************)
EXTENDS Integers, Sequences, FiniteSets, TLC

VARIABLES
    pc,        \* position of the run: the stage about to execute, or its end
    engine_ok, \* the OCR engine is installed and found
    forced,    \* the n argument of ocr_mathdoku: 0 for None, else the size
    resA,      \* result of _find_via_lines: "unset", "none" or "box"
    resB,      \* result of _find_via_white_region: "unset", "none" or "box"
    gh,        \* height of the grid bounding box
    gw,        \* width of the grid bounding box
    h_cands,   \* candidate row positions of grid lines (peaks)
    v_cands,   \* candidate column positions of grid lines (peaks)
    n,         \* grid size in use (0 before it is known)
    h_pos,     \* fitted horizontal lines
    v_pos,     \* fitted vertical lines
    h_thick,   \* map (r,c) -> BOOLEAN of horizontal internal borders
    v_thick,   \* map (r,c) -> BOOLEAN of vertical internal borders
    cages,     \* list of cages, each a list of cells <<r,c>>
    ocr_set,   \* the texts _ocr_crop can return on a crop of this image
    darkness,  \* the measurements of _classify_borders: border -> score
    cfg_out,   \* what the engine does on each configuration, for one crop
    voted,     \* what _run_tesseract returned for that crop
    crop_text, \* what _ocr_crop returned for that crop
    retry_reads, \* what the retries of one label have still to give, in order
    results,   \* the list of (value, op) pairs of _read_cage_labels
    idx,       \* index of the cage the current loop of the reader is at
    doc,       \* <<>>, or <<d>> with d the document ocr_mathdoku returned
    written,   \* the YAML file has been written
    parsed,    \* <<>>, or <<cell>> with the cell _parse_cell returned
    err,       \* "" or the error that ended the run
    stages     \* the stages that have executed, in order

vars == <<pc, engine_ok, forced, resA, resB, gh, gw, h_cands, v_cands, n,
          h_pos, v_pos, h_thick, v_thick, cages, ocr_set, results, idx, doc,
          written, err, stages, darkness, cfg_out, voted, crop_text, retry_reads,
          parsed>>

\* ------------------------------------------------------------------ bounds

\* range(4, 10) of _detect_size_and_lines
MinN == 4
MaxN == 9

\* Largest grid the cage-grouping specification enumerates thick-maps for.
MaxGridN == 4
\* How many borders of a base pattern are changed (to thin, thick or missing).
MaxPerturb == 1

\* How far one line of a regular lattice may be detected off its place.
MaxShift == 3

\* How many of the configurations of a call of the engine give an answer
\* (the others raise).
MaxAnswers == 3

\* the darkest score of a border in the images of three shades
MaxShade == 5

\* ------------------------------------------------------------ small helpers

Min2(a, b) == IF a < b THEN a ELSE b
Max2(a, b) == IF a > b THEN a ELSE b
Abs(x) == IF x < 0 THEN -x ELSE x

Cells(N) == {<<r, c>> : r \in 0..(N - 1), c \in 0..(N - 1)}
\* keys of the horizontal borders: (r,c), 1 <= r <= N-1, 0 <= c <= N-1
HKeys(N) == {<<r, c>> : r \in 1..(N - 1), c \in 0..(N - 1)}
\* keys of the vertical borders: (r,c), 0 <= r <= N-1, 1 <= c <= N-1
VKeys(N) == {<<r, c>> : r \in 0..(N - 1), c \in 1..(N - 1)}

\* dict.get(key, default)
Get(m, key, default) == IF key \in DOMAIN m THEN m[key] ELSE default

EmptyMap == [k \in {} |-> TRUE]

\* the sum of f over S
RECURSIVE SumOver(_, _)
SumOver(f, S) ==
    IF S = {} THEN 0
    ELSE LET x == CHOOSE y \in S : TRUE IN f[x] + SumOver(f, S \ {x})

\* the sequences over S of length k or less
RECURSIVE SeqsUpTo(_, _)
SeqsUpTo(S, k) ==
    IF k = 0 THEN {<<>>}
    ELSE LET prev == SeqsUpTo(S, k - 1)
         IN  prev \union {Append(q, x) : q \in prev, x \in S}

\* ------------------------------------------- grid size selection (l.183-236)
\* Arithmetic is exact: a Python float a/b is kept as the pair of integers it
\* stands for.  Binary floating point agrees with it except, possibly, on an
\* exact tie of a comparison or of a rounding.

\* A score is +infinity or the rational num/den, den > 0.
Inf == [inf |-> TRUE, num |-> 0, den |-> 1]
Fin(a, b) == [inf |-> FALSE, num |-> a, den |-> b]

\* s + t of two scores of the same size, hence of the same denominator
ScoreAdd(s, t) ==
    IF s.inf \/ t.inf THEN Inf
    ELSE Fin(s.num + t.num, s.den)

\* s <= t, a comparison the code never makes
ScoreLessEq(s, t) ==
    IF t.inf THEN TRUE
    ELSE IF s.inf THEN FALSE
    ELSE s.num * t.den <= t.num * s.den

\* s < t, with inf < inf false
ScoreLess(s, t) ==
    IF s.inf THEN FALSE
    ELSE IF t.inf THEN TRUE
    ELSE s.num * t.den < t.num * s.den

\* min(abs(c - expected) for c in candidates), times N, for the k-th slot:
\* expected = first + k * (last - first) / N
min_dist_times_n(candidates, N, k) ==
    LET first == candidates[1]
        D == candidates[Len(candidates)] - first
        dist(i) == Abs(N * (candidates[i] - first) - k * D)
    IN  CHOOSE d \in {dist(i) : i \in 1..Len(candidates)} :
            \A i \in 1..Len(candidates) : d <= dist(i)

\* min_dist < spacing * 0.20
snaps(candidates, N, k) ==
    5 * min_dist_times_n(candidates, N, k) < candidates[Len(candidates)] - candidates[1]

regularity_score(candidates, total, N) ==
    IF Len(candidates) < 2 THEN Inf
    ELSE LET D == candidates[Len(candidates)] - candidates[1]
         IN  IF D < 10 * N THEN Inf
             ELSE LET matched == Cardinality({k \in 0..N : snaps(candidates, N, k)})
                      \* 2 * N * error
                      err2n == SumOver([k \in 0..N |->
                                   IF snaps(candidates, N, k)
                                   THEN 2 * min_dist_times_n(candidates, N, k)
                                   ELSE D], 0..N)
                  IN  Fin(err2n - 2000 * N * (N + 1) * matched, 2 * N * (N + 1))

\* round(a / b) of Python 3, a >= 0, b > 0: to the nearest, a tie to the even
round_div(a, b) ==
    LET q == a \div b
        r == a % b
    IN  IF 2 * r < b THEN q
        ELSE IF 2 * r > b THEN q + 1
        ELSE IF q % 2 = 0 THEN q ELSE q + 1

\* min(dists)[1]: the candidate nearest to the k-th slot, the smaller one of two
\* equally near
nearest(candidates, N, k) ==
    LET first == candidates[1]
        D == candidates[Len(candidates)] - first
        dist(i) == Abs(N * (candidates[i] - first) - k * D)
        md == min_dist_times_n(candidates, N, k)
        near == {candidates[i] : i \in {j \in 1..Len(candidates) : dist(j) = md}}
    IN  CHOOSE c \in near : \A d \in near : c <= d

fit_lines(candidates, total, N) ==
    IF Len(candidates) < 2
    THEN [i \in 1..(N + 1) |-> round_div((i - 1) * total, N)]
    ELSE LET first == candidates[1]
             D == candidates[Len(candidates)] - first
         IN  [i \in 1..(N + 1) |->
                 IF snaps(candidates, N, i - 1)
                 THEN nearest(candidates, N, i - 1)
                 ELSE round_div(N * first + (i - 1) * D, N)]

\* the summed score of size try_n
total_score(hc, vc, H, W, try_n) ==
    ScoreAdd(regularity_score(hc, H, try_n), regularity_score(vc, W, try_n))

\* the loop "for try_n in range(4, 10)": <<best_n, best_score>> after try_n
RECURSIVE best_after(_, _, _, _, _)
best_after(hc, vc, H, W, try_n) ==
    IF try_n < MinN THEN <<MinN, Inf>>
    ELSE LET prev == best_after(hc, vc, H, W, try_n - 1)
             score == total_score(hc, vc, H, W, try_n)
         IN  IF ScoreLess(score, prev[2]) THEN <<try_n, score>> ELSE prev

\* a selection that keeps the last of equally good sizes
best_n_last_wins(hc, vc, H, W) ==
    CHOOSE m \in MinN..MaxN :
        /\ \A k \in MinN..MaxN :
               ScoreLessEq(total_score(hc, vc, H, W, m), total_score(hc, vc, H, W, k))
        /\ \A k \in (m + 1)..MaxN :
               ScoreLess(total_score(hc, vc, H, W, m), total_score(hc, vc, H, W, k))

best_n_of(hc, vc, H, W) == best_after(hc, vc, H, W, MaxN)[1]

\* <<n, h_lines, v_lines>>; N = 0 stands for None
detect_size_and_lines(hc, vc, H, W, N) ==
    IF N # 0
    THEN <<N, fit_lines(hc, H, N), fit_lines(vc, W, N)>>
    ELSE LET b == best_n_of(hc, vc, H, W)
         IN  <<b, fit_lines(hc, H, b), fit_lines(vc, W, b)>>

\* ------------------------------------------------------ label text (l.363-594)
\* A text is a sequence of characters, each a string of length one; a
\* character beyond Latin-1 is written by its code point.
MinusSign == "U+2212"
EnDash == "U+2013"
EmDash == "U+2014"

\* Python's None
None == "None"

AsciiDigits == {"0", "1", "2", "3", "4", "5", "6", "7", "8", "9"}

\* \d of a pattern: of the characters used here, the ASCII digits
IsReDigit(ch) == ch \in AsciiDigits

\* str.isdigit() of one character: also true of a superscript digit
IsDigitChar(ch) == ch \in AsciiDigits \union {"²"}

\* the class [+\-x×÷/?] of _LABEL_RE
LabelOps == {"+", "-", "x", "×", "÷", "/", "?"}

NoMatch == <<>>

\* _LABEL_RE.match(s): <<group(1), group(2)>>, or NoMatch
\* ^(\d[\d,]*)([+\-x×÷/?])?$
label_match(s) ==
    IF Len(s) = 0 THEN NoMatch
    ELSE LET hasOp == s[Len(s)] \in LabelOps
             body == IF hasOp THEN SubSeq(s, 1, Len(s) - 1) ELSE s
         IN  IF /\ Len(body) >= 1
                /\ IsReDigit(body[1])
                /\ \A i \in 1..Len(body) : IsReDigit(body[i]) \/ body[i] = ","
             THEN <<body, IF hasOp THEN s[Len(s)] ELSE None>>
             ELSE NoMatch

\* a cleaning that leaves the typographic operators as they are
fold_nothing(ch) == ch

\* the replacements of one character, l.490-493
fold_glyphs(ch) ==
    CASE ch = "×" -> "x"
      [] ch = "÷" -> "/"
      [] ch = MinusSign -> "-"
      [] OTHER -> ch

fold_letters(ch) ==
    CASE ch = "X" -> "x"
      [] ch \in {"O", "o", "Q"} -> "0"
      [] ch \in {"l", "I"} -> "1"
      [] OTHER -> ch

IsSpace(ch) == ch \in {" ", "\n"}

\* str.strip()
strip(text) ==
    LET solid == {i \in 1..Len(text) : ~IsSpace(text[i])}
    IN  IF solid = {} THEN <<>>
        ELSE SubSeq(text, CHOOSE i \in solid : \A j \in solid : i <= j,
                          CHOOSE i \in solid : \A j \in solid : j <= i)

\* l.486-493: strip, drop blanks and newlines, replace look-alikes
clean(text) ==
    LET kept == SelectSeq(strip(text), LAMBDA ch : ~IsSpace(ch))
    IN  [i \in 1..Len(kept) |-> fold_letters(fold_glyphs(kept[i]))]

\* l.498-511: a text of digits and one more character that is no digit gets
\* that character replaced by the operator it resembles, or by ?
salvage(text) ==
    IF /\ Len(text) >= 2
       /\ \A i \in 1..(Len(text) - 1) : IsReDigit(text[i])
       /\ text[Len(text)] # "\n"
       /\ ~IsDigitChar(text[Len(text)])
    THEN LET ch == text[Len(text)]
             d  == SubSeq(text, 1, Len(text) - 1)
         IN  IF ch \in {"+", "-", MinusSign, EnDash, EmDash, "_"} THEN Append(d, "-")
             ELSE IF ch \in {"/", "÷", "|", "\\"} THEN Append(d, "/")
             ELSE IF ch \in {"*", "x", "X", "×"} THEN Append(d, "x")
             ELSE Append(d, "?")
    ELSE text

\* what one answer of the engine contributes: <<match, text>>
read_one(answer) ==
    LET text == clean(answer)
        m == label_match(text)
    IN  IF m # NoMatch THEN <<m, text>>
        ELSE LET text2 == salvage(text) IN <<label_match(text2), text2>>

\* how often x occurs in s, and where first
Count(s, x) == Cardinality({i \in 1..Len(s) : s[i] = x})
FirstIndex(s, x) == CHOOSE i \in 1..Len(s) : s[i] = x /\ \A j \in 1..(i - 1) : s[j] # x

\* Counter(s).most_common(1)[0][0] and max(s, key=count) of a list that is not
\* empty: the most counted entry, and of two the one seen first
most_common(s) ==
    s[CHOOSE i \in 1..Len(s) :
        /\ FirstIndex(s, s[i]) = i
        /\ \A j \in 1..Len(s) :
               \/ Count(s, s[j]) < Count(s, s[i])
               \/ Count(s, s[j]) = Count(s, s[i]) /\ i <= FirstIndex(s, s[j])]

\* l.515-516: the first of the longest texts, "" when all are empty
longest_first(texts) ==
    IF \A i \in 1..Len(texts) : Len(texts[i]) = 0 THEN <<>>
    ELSE texts[CHOOSE i \in 1..Len(texts) :
                 /\ \A j \in 1..Len(texts) : Len(texts[j]) <= Len(texts[i])
                 /\ \A j \in 1..(i - 1) : Len(texts[j]) < Len(texts[i])]

\* max(by_len[L], key=count): the digit string of length L read most often
top_of_length(ds, L) == most_common(SelectSeq(ds, LAMBDA d : Len(d) = L))

\* a choice that takes the most read of the longest digit strings
best_digits_longest(ds) ==
    LET lengths == {Len(ds[i]) : i \in 1..Len(ds)}
    IN  top_of_length(ds, CHOOSE L \in lengths : \A M \in lengths : M <= L)

\* l.528-541: the longest digit string read twice or more, else the most
\* read one of the shortest; ds are the digit strings of the results
best_digits_of(ds) ==
    LET lengths == {Len(ds[i]) : i \in 1..Len(ds)}
        accepted == {L \in lengths :
                        \/ Count(ds, top_of_length(ds, L)) >= 2
                        \/ \A M \in lengths : L <= M}
    IN  top_of_length(ds, CHOOSE L \in accepted : \A M \in accepted : M <= L)

\* a vote in which a real operator needs more votes than no operator
with_operator_outvoted(best_digits, ops) ==
    LET real == SelectSeq(ops, LAMBDA o : o # None /\ o # "?")
    IN  IF Len(real) > Count(ops, None) THEN Append(best_digits, most_common(real))
        ELSE IF Count(ops, "?") > Count(ops, None) THEN Append(best_digits, "?")
        ELSE best_digits

\* l.545-555: the operator that goes with the digits; ops are the operators
\* of the results that have these digits
with_operator(best_digits, ops) ==
    LET real == SelectSeq(ops, LAMBDA o : o # None /\ o # "?")
    IN  IF Len(real) > 0 THEN Append(best_digits, most_common(real))
        ELSE IF Count(ops, "?") > Count(ops, None) THEN Append(best_digits, "?")
        ELSE best_digits

\* l.519-555: the vote over results, the list of the matches <<digits, op>>
vote(results_list, best_raw) ==
    IF Len(results_list) = 0 THEN best_raw
    ELSE LET ds == [i \in 1..Len(results_list) |-> results_list[i][1]]
             best == best_digits_of(ds)
             same == SelectSeq(results_list, LAMBDA r : r[1] = best)
         IN  with_operator(best, [i \in 1..Len(same) |-> same[i][2]])

\* _run_tesseract: answers are the texts of the configurations that did not
\* raise, in the order of the configurations
run_tesseract(answers) ==
    LET reads == [i \in 1..Len(answers) |-> read_one(answers[i])]
        hits == SelectSeq(reads, LAMBDA r : r[1] # NoMatch)
        misses == SelectSeq(reads, LAMBDA r : r[1] = NoMatch)
    IN  vote([i \in 1..Len(hits) |-> hits[i][1]],
             longest_first([i \in 1..Len(misses) |-> misses[i][2]]))

\* a correction that takes every value of zeros only for a misread 9
zero_to_nine_all_zeros(result) ==
    LET m == label_match(result)
    IN  IF m # NoMatch /\ (\A i \in 1..Len(m[1]) : m[1][i] = "0")
        THEN IF m[2] = None THEN <<"9">> ELSE <<"9", m[2]>>
        ELSE result

\* l.588-592 of _ocr_crop: a value "0" is read as "9"
zero_to_nine(result) ==
    LET m == label_match(result)
    IN  IF m # NoMatch /\ m[1] = <<"0">>
        THEN IF m[2] = None THEN <<"9">> ELSE <<"9", m[2]>>
        ELSE result

\* _ocr_crop on a crop of h rows and w columns; trimmed is whether the crop
\* trimmed to its text is still 5 by 5 or more
ocr_crop(h, w, trimmed, answers) ==
    IF h < 10 \/ w < 10 THEN <<>>
    ELSE IF ~trimmed THEN <<>>
    ELSE zero_to_nine(run_tesseract(answers))

\* --------------------------------------------- label reader (l.597-918)

QMark == <<"?">>

\* _MIN_CELL_FOR_OCR
MinCellForOcr == 50

\* min(cell_h, cell_w) * n
min_cell_times_n(hp, vp) == Min2(hp[Len(hp)] - hp[1], vp[Len(vp)] - vp[1])

\* l.736: the grid is pre-upscaled (grid_up is not None)
grid_up(N, hp, vp) == min_cell_times_n(hp, vp) < MinCellForOcr * N

\* l.737, l.747: upscale
upscale_of(N, hp, vp) ==
    IF grid_up(N, hp, vp)
    THEN Max2(2, ((MinCellForOcr * N) \div min_cell_times_n(hp, vp)) + 1)
    ELSE 1

\* <<ch, cw>> of the cell (r, c): l.751-754
cell_dims(hp, vp, cell) ==
    <<hp[cell[1] + 2] - hp[cell[1] + 1], vp[cell[2] + 2] - vp[cell[2] + 1]>>

\* int(x * p / 100) for the factors 0.92, 0.42, 0.95, 0.45 of the code
Percent(x, p) == (x * p) \div 100

\* <<lh, lw>> of the label crop at upscale s: l.759-764, l.770-771, l.605-615.
\* A crop is taken where the image has pixels: its shape is <<lh, lw>>.
label_crop(s, ch, cw) == <<Percent(ch * s, 42), Percent(cw * s, 92)>>

\* <<rh, rw>> of the crop of the retries from the original image: l.828-829,
\* l.881-882
retry_crop(ch, cw) == <<Percent(ch, 45), Percent(cw, 95)>>

\* what _ocr_crop can return on a crop of h rows and w columns of an image on
\* whose readable crops it returns a text of set
crop_outcomes(set, h, w) == IF h < 10 \/ w < 10 THEN {<<>>} ELSE set

\* re.match(r"[\d,]+", raw).group(0): the longest prefix of digits and commas
RECURSIVE prefix_len(_, _)
prefix_len(raw, i) ==
    IF i < Len(raw) /\ (IsReDigit(raw[i + 1]) \/ raw[i + 1] = ",")
    THEN prefix_len(raw, i + 1) ELSE i

\* l.801-811: the pair of a raw text
parse_label(raw) ==
    LET m == label_match(raw)
    IN  IF m # NoMatch THEN <<m[1], m[2]>>
        ELSE IF Len(raw) > 0 /\ IsDigitChar(raw[1])
        THEN LET k == prefix_len(raw, 0)
                 val == IF k > 0 THEN SubSeq(raw, 1, k) ELSE raw
                 rest == SubSeq(raw, Len(val) + 1, Len(raw))
             IN  <<val, IF Len(rest) > 0 /\ rest[1] \in {"+", "-", "x", "/", "?"}
                        THEN rest[1] ELSE None>>
        ELSE <<QMark, None>>

\* l.780-800: the text the first pass settles on. raw is the first reading;
\* when it does not match, the crop is read again at three wider margins and
\* the first reading that matches replaces it.
first_pass_raws(set, lh, lw) ==
    LET O == crop_outcomes(set, lh, lw)
        again == IF lh < 5 \/ lw < 5 THEN {}
                 ELSE {o \in O : label_match(o) # NoMatch}
    IN  {raw \in O : label_match(raw) # NoMatch}
        \union UNION {{raw} \union again : raw \in {o \in O : label_match(o) = NoMatch}}

\* l.750-811: the pairs the first pass can append for a cell of ch by cw
first_pass_pairs(set, s, ch, cw) ==
    LET crop == label_crop(s, ch, cw)
    IN  IF crop[1] <= 0 \/ crop[2] <= 0 THEN {<<QMark, None>>}
        ELSE {parse_label(raw) : raw \in first_pass_raws(set, crop[1], crop[2])}

\* l.817-846: the pairs pass 1 can leave for a cage that has <<value, op>>
pass1_pairs(set, value, op, ch, cw) ==
    IF Len(value) = 0 \/ value = QMark \/ Len(value) # 2 THEN {<<value, op>>}
    ELSE LET crop == retry_crop(ch, cw)
         IN  IF crop[1] <= 0 \/ crop[2] <= 0 \/ crop[1] < 5 THEN {<<value, op>>}
             ELSE {<<value, op>>} \union
                  {<<m[1], IF m[2] # None THEN m[2] ELSE op>> :
                     m \in {x \in {label_match(o) :
                                     o \in crop_outcomes(set, 3 * crop[1], 3 * crop[2])} :
                               /\ x # NoMatch
                               /\ Len(x[1]) > Len(value)
                               /\ ~(op # None /\ x[2] # None /\ x[2] # op)}}

\* a decision that takes a tie for a puzzle that shows its operators
ops_shown_on_tie(res, cgs) ==
    Cardinality({i \in 1..Len(res) : Len(cgs[i]) > 1 /\ res[i][2] # None})
    >= Cardinality({i \in 1..Len(res) : Len(cgs[i]) > 1 /\ res[i][2] = None})

\* l.850-852
ops_shown(res, cgs) ==
    Cardinality({i \in 1..Len(res) : Len(cgs[i]) > 1 /\ res[i][2] # None})
    > Cardinality({i \in 1..Len(res) : Len(cgs[i]) > 1 /\ res[i][2] = None})

\* _detect_trailing_operator, l.622-716.  found is whether a rightmost glyph
\* passed the tests of l.628-663; answers are the texts of the configurations
\* that did not raise; shape is what the fallback of l.698-714 sees.
detect_trailing_operator(found, answers, shape) ==
    IF ~found THEN None
    ELSE LET texts == [i \in 1..Len(answers) |->
                         LET t == strip(answers[i])
                         IN  [j \in 1..Len(t) |-> fold_glyphs(t[j])]]
             votes == SelectSeq(texts, LAMBDA t :
                         Len(t) = 1 /\ t[1] \in {"+", "-", "x", "/"})
         IN  IF Len(votes) > 0 THEN most_common(votes)[1]
             ELSE IF shape = "cross" THEN "+"
             ELSE IF shape = "wide" THEN "-"
             ELSE None

\* What the engine answers on the glyph of an operator.
OpTexts == {<<"+", "\n">>, <<"×">>, <<"÷">>, <<MinusSign>>, <<"a">>, <<"x", "x">>, <<>>}

\* cross: near-square with both centre strips filled; wide: more than twice
\* as wide as high; other: anything else
Shapes == {"cross", "wide", "other"}

\* what _detect_trailing_operator can return
DetectedOps ==
    {detect_trailing_operator(f, a, sh) :
        f \in BOOLEAN, a \in SeqsUpTo(OpTexts, MaxAnswers), sh \in Shapes}

\* a pass 2 whose first strategy takes a trailing 0 only for a misread +
pass2_pairs_zero_only(set, value, op, cells, s, ch, cw) ==
    IF Len(cells) <= 1 \/ op # None THEN {<<value, op>>}
    ELSE IF Len(value) >= 2 /\ value[Len(value)] = "0"
    THEN {<<SubSeq(value, 1, Len(value) - 1), "+">>}
    ELSE LET crop == retry_crop(ch, cw)
             hi == IF crop[1] <= 0 \/ crop[2] <= 0 \/ crop[1] < 5 THEN {}
                   ELSE crop_outcomes(set, 4 * crop[1], 4 * crop[2])
                        \union crop_outcomes(set, 6 * crop[1], 6 * crop[2])
             \* strategy 2: a reading with a real operator, and for a short
             \* value with the same digits
             strategy2 == {<<m[1], m[2]>> :
                             m \in {x \in {label_match(o) : o \in hi} :
                                       /\ x # NoMatch
                                       /\ x[2] # None /\ x[2] # "?"
                                       /\ ~(Len(value) <= 2 /\ x[1] # value)}}
             \* strategy 3: the operator found as the rightmost glyph
             crop3 == label_crop(s, ch, cw)
             strategy3 == IF \/ crop3[1] <= 0 \/ crop3[2] <= 0
                             \/ crop3[1] < 5 \/ crop3[2] < 5
                          THEN {<<value, None>>}
                          ELSE {<<value, o>> : o \in DetectedOps}
         IN  strategy2 \union strategy3

\* l.856-916: the pairs pass 2 can leave for a cage of the given cells that
\* has <<value, op>>
pass2_pairs(set, value, op, cells, s, ch, cw) ==
    IF Len(cells) <= 1 \/ op # None THEN {<<value, op>>}
    ELSE IF Len(value) >= 2 /\ value[Len(value)] \in {"0", "4"}
    THEN {<<SubSeq(value, 1, Len(value) - 1), "+">>}
    ELSE LET crop == retry_crop(ch, cw)
             hi == IF crop[1] <= 0 \/ crop[2] <= 0 \/ crop[1] < 5 THEN {}
                   ELSE crop_outcomes(set, 4 * crop[1], 4 * crop[2])
                        \union crop_outcomes(set, 6 * crop[1], 6 * crop[2])
             \* strategy 2: a reading with a real operator, and for a short
             \* value with the same digits
             strategy2 == {<<m[1], m[2]>> :
                             m \in {x \in {label_match(o) : o \in hi} :
                                       /\ x # NoMatch
                                       /\ x[2] # None /\ x[2] # "?"
                                       /\ ~(Len(value) <= 2 /\ x[1] # value)}}
             \* strategy 3: the operator found as the rightmost glyph
             crop3 == label_crop(s, ch, cw)
             strategy3 == IF \/ crop3[1] <= 0 \/ crop3[2] <= 0
                             \/ crop3[1] < 5 \/ crop3[2] < 5
                          THEN {<<value, None>>}
                          ELSE {<<value, o>> : o \in DetectedOps}
         IN  strategy2 \union strategy3

\* ------------------------------------------------- the result (l.958-976)

ColumnLetters == <<"A", "B", "C", "D", "E", "F", "G", "H", "I">>
DigitChars == <<"0", "1", "2", "3", "4", "5", "6", "7", "8", "9">>

\* _cell_a1(r, c): f"{chr(ord('A') + c)}{r + 1}", for r + 1 <= 9
cell_a1(r, c) == <<ColumnLetters[c + 1], DigitChars[r + 2]>>

\* str.isdigit()
isdigit(value) == Len(value) > 0 /\ \A i \in 1..Len(value) : IsDigitChar(value[i])

\* int(value) raises ValueError
int_raises(value) == \E i \in 1..Len(value) : value[i] \notin AsciiDigits

DigitValue(ch) == CHOOSE d \in 0..9 : DigitChars[d + 1] = ch

\* int(value) of a text of ASCII digits
RECURSIVE int_of(_)
int_of(value) ==
    IF Len(value) = 0 THEN 0
    ELSE 10 * int_of(SubSeq(value, 1, Len(value) - 1)) + DigitValue(value[Len(value)])

\* entry["value"]: the number, or the text when it is not all digits
entry_value(value) ==
    IF isdigit(value) THEN <<"int", int_of(value)>> ELSE <<"str", value>>

\* the entry of one cage: "op" is a key only when op is truthy
entry(cells, value, op) ==
    LET refs == [i \in 1..Len(cells) |-> cell_a1(cells[i][1], cells[i][2])]
    IN  IF op # None /\ op # ""
        THEN [cells |-> refs, value |-> entry_value(value), op |-> op]
        ELSE [cells |-> refs, value |-> entry_value(value)]

\* zip(cages, labels)
ZipLen(cgs, res) == Min2(Len(cgs), Len(res))

\* a flag that looks at the cages of two or more cells only
has_ops_multi_only(cgs, res) ==
    \E i \in 1..ZipLen(cgs, res) : Len(cgs[i]) > 1 /\ res[i][2] # None /\ res[i][2] # ""

\* has_ops after the loop
has_ops(cgs, res) == \E i \in 1..ZipLen(cgs, res) : res[i][2] # None /\ res[i][2] # ""

\* the document; call it only when no value makes int() raise
result_doc(N, cgs, res) ==
    [size |-> N,
     difficulty |-> "?",
     operations |-> has_ops(cgs, res),
     cages |-> [i \in 1..ZipLen(cgs, res) |-> entry(cgs[i], res[i][1], res[i][2])]]

\* What the engine answers on one configuration, before any cleaning.
EngineTexts ==
    {<<"8", " ", "+", "\n">>, <<"8">>, <<"8", "0">>, <<"1", "2", "8", "×">>,
     <<"8", "÷">>, <<"8", MinusSign>>, <<"8", "a">>, <<"a", "b">>, <<>>,
     <<"²">>, <<"O">>, <<"8", "+", "a">>, <<"1", ",", "2">>, <<"7", "4">>}

Answers == SeqsUpTo(EngineTexts, MaxAnswers)

\* what _ocr_crop can return on a crop large enough to be read
OcrOutcomes == {ocr_crop(10, 10, TRUE, a) : a \in Answers} \union {<<>>}

\* What the engine does on one configuration: it answers a text, or the call
\* raises.
Raised == <<"raise", <<>>>>
Answered(text) == <<"text", text>>

\* a loop that an exception ends
answered_until_raise(outs) ==
    LET stop == {i \in 1..Len(outs) : outs[i] = Raised}
        last == IF stop = {} THEN Len(outs)
                ELSE (CHOOSE i \in stop : \A j \in stop : i <= j) - 1
    IN  [i \in 1..last |-> outs[i][2]]

\* l.484-488: the texts of the configurations whose call did not raise, in
\* the order of the configurations
answered(outs) ==
    LET kept == SelectSeq(outs, LAMBDA o : o # Raised)
    IN  [i \in 1..Len(kept) |-> kept[i][2]]

\* The answers of the engine on the configurations of one crop: labels with
\* the value 0, readings of 1, 11 and 7 that compete, texts that match
\* nothing.
VoteTexts ==
    {<<"8", " ", "+", "\n">>, <<"8">>, <<"1", "2", "8", "×">>, <<"a", "b">>, <<>>,
     <<"O">>, <<"0", "0">>, <<"1", "0">>, <<"O", "+">>, <<"1">>, <<"1", "1">>,
     <<"7">>, <<"1", "+">>, <<"8", "a">>, <<"8", "?">>, <<"8", "-">>}

ConfigOutcomes == {Answered(t) : t \in VoteTexts} \union {Raised}

\* --------------------------------------------- border classification (l.241-322)

\* the floor of the threshold, l.308
BorderFloor == 3

\* max(5, int(cell * 0.25)) for the mean cell size of the lines
border_margin(N, pos) == Max2(5, (pos[Len(pos)] - pos[1]) \div (4 * N))

\* the borders that get a measurement: the strip between the margins of the
\* cell is not empty (l.269-274, l.282-287)
measured(N, hp, vp) ==
    {<<"h", k>> : k \in {x \in HKeys(N) :
        vp[x[2] + 1] + border_margin(N, vp) < vp[x[2] + 2] - border_margin(N, vp)}}
    \union
    {<<"v", k>> : k \in {x \in VKeys(N) :
        hp[x[1] + 1] + border_margin(N, hp) < hp[x[1] + 2] - border_margin(N, hp)}}

\* a search that keeps the last of the thresholds that separate equally well
otsu_threshold_last_best(M, score) ==
    LET U == {score[b] : b \in M}
        valid == {t \in U : \E b \in M : score[b] > t}
        lo(t) == {b \in M : score[b] <= t}
        hi(t) == {b \in M : score[b] > t}
        sum(S) == SumOver([v \in U |-> v * Cardinality({b \in S : score[b] = v})], U)
        a(t) == sum(hi(t)) * Cardinality(lo(t)) - sum(lo(t)) * Cardinality(hi(t))
        d(t) == Cardinality(lo(t)) * Cardinality(hi(t))
        greater(t, u) == a(t) * a(t) * d(u) > a(u) * a(u) * d(t)
    IN  IF valid = {} THEN CHOOSE t \in U : TRUE
        ELSE CHOOSE t \in valid :
                /\ \A u \in valid : u < t => ~greater(u, t)
                /\ \A u \in valid : u > t => greater(t, u)

\* l.298-306: the threshold that separates the scores of the borders of M
\* best; with a single score no threshold separates, and the median stays
otsu_threshold(M, score) ==
    LET U == {score[b] : b \in M}
        valid == {t \in U : \E b \in M : score[b] > t}
        lo(t) == {b \in M : score[b] <= t}
        hi(t) == {b \in M : score[b] > t}
        sum(S) == SumOver([v \in U |-> v * Cardinality({b \in S : score[b] = v})], U)
        \* var = len(lo) * len(hi) * (mean(hi) - mean(lo)) ** 2 = a(t)^2 / d(t)
        a(t) == sum(hi(t)) * Cardinality(lo(t)) - sum(lo(t)) * Cardinality(hi(t))
        d(t) == Cardinality(lo(t)) * Cardinality(hi(t))
        greater(t, u) == a(t) * a(t) * d(u) > a(u) * a(u) * d(t)
    IN  IF valid = {} THEN CHOOSE t \in U : TRUE
        ELSE CHOOSE t \in valid :
                /\ \A u \in valid : u < t => greater(t, u)
                /\ \A u \in valid : u > t => ~greater(u, t)

\* a classifier whose threshold has no floor
classify_borders_no_floor(N, hp, vp, score) ==
    LET M == measured(N, hp, vp)
    IN  IF M = {} THEN <<EmptyMap, EmptyMap>>
        ELSE LET thresh == otsu_threshold(M, score)
             IN  <<[k \in {x \in HKeys(N) : <<"h", x>> \in M} |-> score[<<"h", k>>] > thresh],
                   [k \in {x \in VKeys(N) : <<"v", x>> \in M} |-> score[<<"v", k>>] > thresh]>>

\* <<h_thick, v_thick>>: a measured border is thick iff its score is above the
\* threshold, which is never below the floor
classify_borders(N, hp, vp, score) ==
    LET M == measured(N, hp, vp)
    IN  IF M = {} THEN <<EmptyMap, EmptyMap>>
        ELSE LET thresh == Max2(otsu_threshold(M, score), BorderFloor)
             IN  <<[k \in {x \in HKeys(N) : <<"h", x>> \in M} |-> score[<<"h", k>>] > thresh],
                   [k \in {x \in VKeys(N) : <<"v", x>> \in M} |-> score[<<"v", k>>] > thresh]>>

\* --------------------------------------------------- cage grouping (l.327-358)

\* find(x): path halving; returns <<root, parent after the call>>
RECURSIVE find(_, _)
find(parent, x) ==
    IF parent[x] = x
    THEN <<x, parent>>
    ELSE LET p2 == [parent EXCEPT ![x] = parent[parent[x]]]
         IN  find(p2, p2[x])

\* union(a, b): parent[find(b)] = find(a) when the roots differ
union(parent, a, b) ==
    LET fa == find(parent, a)
        fb == find(fa[2], b)
    IN  IF fa[1] # fb[1] THEN [fb[2] EXCEPT ![fb[1]] = fa[1]] ELSE fb[2]

\* the cell visited k-th by "for r in range(n): for c in range(n)"
CellAt(N, k) == <<k \div N, k % N>>

\* a missing entry joins the cells
joins_missing_as_thin(m, key) == ~Get(m, key, FALSE)

\* not thick.get(key, True): the border joins two cells iff present and false
joins(m, key) == ~Get(m, key, TRUE)

\* Python evaluates each statement before the next one runs; Strict(v, e) is
\* e, evaluated once v has its value.
Strict(v, e) == IF v = v THEN e ELSE e

\* the body of the union loop for cell (r, c)
visit(N, ht, vt, parent, r, c) ==
    LET p1 == IF c + 1 < N /\ joins(vt, <<r, c + 1>>)
              THEN union(parent, <<r, c>>, <<r, c + 1>>) ELSE parent
    IN  IF r + 1 < N /\ joins(ht, <<r + 1, c>>)
        THEN union(p1, <<r, c>>, <<r + 1, c>>) ELSE p1

\* the union loop, from the k-th cell on
RECURSIVE union_loop(_, _, _, _, _)
union_loop(N, ht, vt, parent, k) ==
    IF k >= N * N THEN parent
    ELSE LET p2 == visit(N, ht, vt, parent, k \div N, k % N)
         IN  Strict(p2, union_loop(N, ht, vt, p2, k + 1))

\* index of root in the list of roots seen so far, 0 if absent
RECURSIVE IndexOf(_, _, _)
IndexOf(s, x, i) ==
    IF i > Len(s) THEN 0 ELSE IF s[i] = x THEN i ELSE IndexOf(s, x, i + 1)

\* a walk that starts the list of a root anew at each of its cells
RECURSIVE group_loop_overwrite(_, _, _, _, _)
group_loop_overwrite(N, parent, roots, groups, k) ==
    IF k >= N * N THEN groups
    ELSE LET f == find(parent, CellAt(N, k))
             i == IndexOf(roots, f[1], 1)
         IN  IF i = 0
             THEN group_loop_overwrite(N, f[2], Append(roots, f[1]),
                                       Append(groups, <<CellAt(N, k)>>), k + 1)
             ELSE group_loop_overwrite(N, f[2], roots,
                                       [groups EXCEPT ![i] = <<CellAt(N, k)>>], k + 1)

\* a walk that puts the list of a new root before the lists it has
RECURSIVE group_loop_newest_first(_, _, _, _, _)
group_loop_newest_first(N, parent, roots, groups, k) ==
    IF k >= N * N THEN groups
    ELSE LET f == find(parent, CellAt(N, k))
             i == IndexOf(roots, f[1], 1)
         IN  IF i = 0
             THEN group_loop_newest_first(N, f[2], <<f[1]>> \o roots,
                                          <<<<CellAt(N, k)>>>> \o groups, k + 1)
             ELSE group_loop_newest_first(N, f[2], roots,
                                          [groups EXCEPT ![i] = Append(@, CellAt(N, k))], k + 1)

\* groups.setdefault(find((r, c)), []).append((r, c)) over the row-major walk:
\* roots keeps the insertion order of the dict, groups the lists
RECURSIVE group_loop(_, _, _, _, _)
group_loop(N, parent, roots, groups, k) ==
    IF k >= N * N THEN groups
    ELSE LET f == find(parent, CellAt(N, k))
             i == IndexOf(roots, f[1], 1)
         IN  IF i = 0
             THEN group_loop(N, f[2], Append(roots, f[1]),
                             Append(groups, <<CellAt(N, k)>>), k + 1)
             ELSE group_loop(N, f[2], roots,
                             [groups EXCEPT ![i] = Append(@, CellAt(N, k))], k + 1)

\* row-major (lexicographic) order of cells, the order sorted() gives tuples
CellLess(a, b) == a[1] < b[1] \/ (a[1] = b[1] /\ a[2] < b[2])

\* sorted(cells) of a list of distinct cells: the i-th entry is the cell with
\* i-1 cells of the list before it in row-major order
sorted_cells(s) ==
    [i \in 1..Len(s) |->
        CHOOSE x \in {s[j] : j \in 1..Len(s)} :
            Cardinality({j \in 1..Len(s) : CellLess(s[j], x)}) = i - 1]

group_cages(N, ht, vt) ==
    LET parent0 == [x \in Cells(N) |-> x]
        parent1 == union_loop(N, ht, vt, parent0, 0)
        groups  == Strict(parent1, group_loop(N, parent1, <<>>, <<>>, 0))
    IN  [i \in 1..Len(groups) |-> sorted_cells(groups[i])]

\* ------------------------------------------------- thick-maps given to it

\* The status of one border in a map: thick, thin, or no entry at all.
Status == {"thick", "thin", "missing"}

\* Base patterns of a whole grid.  kind, axis ("h"/"v") and key give a status.
BaseKinds == {"allthick", "allthin", "empty", "rows", "cols", "comb", "ring"}

BaseStatus(kind, axis, key) ==
    LET r == key[1]
        c == key[2]
    IN  CASE kind = "allthick" -> "thick"
          [] kind = "allthin"  -> "thin"
          [] kind = "empty"    -> "missing"
          [] kind = "rows"     -> IF axis = "h" THEN "thick" ELSE "thin"
          [] kind = "cols"     -> IF axis = "v" THEN "thick" ELSE "thin"
          \* vertical strips joined only along the bottom row: a U-shaped
          \* cage whose parts are merged late in the walk
          [] kind = "comb"     -> IF axis = "h" THEN "thin"
                                  ELSE IF r = 3 THEN "thin" ELSE "thick"
          \* the outer ring of cells closed around a block whose entries
          \* are missing
          [] kind = "ring"     -> IF axis = "h"
                                  THEN (IF c \in {0, 3} THEN "thin"
                                        ELSE IF r \in {1, 3} THEN "thick"
                                        ELSE "missing")
                                  ELSE (IF r \in {0, 3} THEN "thin"
                                        ELSE IF c \in {1, 3} THEN "thick"
                                        ELSE "missing")

\* A perturbation: a set of at most MaxPerturb borders, each given a status.
Borders(N) == ({"h"} \X HKeys(N)) \union ({"v"} \X VKeys(N))

\* the subsets of S with at most k elements
RECURSIVE SubsetsUpTo(_, _)
SubsetsUpTo(S, k) ==
    IF k = 0 THEN {{}}
    ELSE LET prev == SubsetsUpTo(S, k - 1)
         IN  prev \union {T \union {x} : T \in prev, x \in S}

Perturbations(N) ==
    UNION {[S -> Status] : S \in SubsetsUpTo(Borders(N), MaxPerturb)}

StatusOf(kind, pert, axis, key) ==
    IF <<axis, key>> \in DOMAIN pert THEN pert[<<axis, key>>]
    ELSE BaseStatus(kind, axis, key)

\* The dict the classifier would hand over: entries only for present borders.
MapOf(N, kind, pert, axis) ==
    LET keys == IF axis = "h" THEN HKeys(N) ELSE VKeys(N)
        present == {k \in keys : StatusOf(kind, pert, axis, k) # "missing"}
    IN  [k \in present |-> StatusOf(kind, pert, axis, k) = "thick"]

\* ------------------------------------------------------ size selection run

\* N0 + 1 lines, pitch apart
Regular(first, pitch, N0) == [i \in 1..(N0 + 1) |-> first + (i - 1) * pitch]

\* a lattice of small cells, 12 apart, and one of large cells, 60 apart
SmallLattice(N0) == Regular(2, 12, N0)
LargeLattice(N0) == Regular(0, 60, N0)

\* a lattice of the smallest cells _fit_lines lets pass, 10 apart
TightLattice(N0) == Regular(0, 10, N0)

\* s without its i-th entry
Without(s, i) == [j \in 1..(Len(s) - 1) |-> IF j < i THEN s[j] ELSE s[j + 1]]

\* s is strictly increasing
Increasing(s) == \A i \in 1..(Len(s) - 1) : s[i] < s[i + 1]

\* Peak lists: a regular lattice of any size, complete, with one line not
\* detected, or with one line detected off its place; and lists with too
\* few or too close peaks.
LatticeLists ==
    UNION {LET base == SmallLattice(N0)
           IN  {base}
               \union {Without(base, i) : i \in 1..(N0 + 1)}
               \union {[base EXCEPT ![i] = @ + d] :
                          i \in 1..(N0 + 1), d \in (-MaxShift..MaxShift) \ {0}}
           : N0 \in MinN..MaxN}

PoorLists ==
    {<<>>, <<7>>, <<5, 7>>, <<0, 39>>, <<0, 40>>, <<0, 100>>, <<3, 50, 51, 52, 90>>,
     \* two sizes fit these equally well: 4 and 5, 6 and 7
     <<51, 66, 87, 111>>, <<9, 79, 93>>}

\* no slot of any size is exactly 0.20 of the spacing away from its nearest
\* peak: there the rounding of binary floating point decides the comparison
NoTie(s) ==
    Len(s) >= 2 =>
        \A N \in MinN..MaxN : \A k \in 0..N :
            5 * min_dist_times_n(s, N, k) # s[Len(s)] - s[1]

CandLists ==
    {s \in LatticeLists \union PoorLists :
        Increasing(s) /\ (Len(s) > 0 => s[1] >= 0) /\ NoTie(s)}

\* the extent of the bounding box: every peak is inside it
Extent == SmallLattice(MaxN)[MaxN + 1] + MaxShift + 1
LargeExtent == LargeLattice(MinN)[MinN + 1] + MaxShift + 1

\* the other axis: the same peaks, a perfect lattice, or nothing usable
OtherAxis(hc) ==
    {hc, SmallLattice(MinN), SmallLattice(MaxN), <<>>}

\* the image shows the cages of a layout: bands of rows, a corner cell cut
\* off, a corner cell and three bands, or every cell on its own
LayoutKinds == {"bands", "corner", "mixed", "singles"}

LayoutId(kind, r, c) ==
    CASE kind = "bands"  -> Min2(r, 2)
      [] kind = "corner" -> IF r = 0 /\ c = 0 THEN 0 ELSE IF r <= 1 THEN 1 ELSE 2
      [] kind = "mixed"  -> IF r = 0 /\ c = 0 THEN 0 ELSE Min2(r, 2) + 1
      [] kind = "singles" -> 1 + r * MaxN + c

\* <<dark, light>>: the darkness of a border between two cages and of one
\* inside a cage
Levels == {<<5, 1>>, <<5, 4>>, <<2, 1>>, <<4, 4>>}

\* the darkness the image shows at each border
ScoreMap(N, kind, lv) ==
    [b \in Borders(N) |->
        LET r == b[2][1]
            c == b[2][2]
            other == IF b[1] = "h" THEN LayoutId(kind, r - 1, c)
                     ELSE LayoutId(kind, r, c - 1)
        IN  IF LayoutId(kind, r, c) # other THEN lv[1] ELSE lv[2]]

\* <<horizontal, vertical>>: the darkness of the thin lines of an image
\* whose grid is one cage; rows and columns may be drawn a shade apart
ThinLevels == {<<4, 4>>, <<4, 5>>, <<1, 2>>}

\* the darkness at each border of an image that shows no cage boundary
WholeGridScores(N) ==
    {[b \in Borders(N) |-> IF b[1] = "h" THEN lv[1] ELSE lv[2]] : lv \in ThinLevels}

\* the darkness of the lines of an image drawn in three shades: the first
\* inner line of each axis in the first shade, the second in the second,
\* the others in the third
GradedLevels ==
    {lv \in (1..MaxShade) \X (1..MaxShade) \X (1..MaxShade) : lv[1] <= lv[2] /\ lv[2] <= lv[3]}

GradedScores(N) ==
    {[b \in Borders(N) |-> lv[Min2(IF b[1] = "h" THEN b[2][1] ELSE b[2][2], 3)]] :
        lv \in GradedLevels}

\* the darkness at each border of an image with a dark mark on one border
\* only, such as a stroke of a label that reaches into the strip
SpurScores(N) == {[b \in Borders(N) |-> IF b = spur THEN 5 ELSE 1] : spur \in Borders(N)}

\* the darkness an image can show at its borders
BorderScores(N) ==
    {ScoreMap(N, kind, lv) : kind \in LayoutKinds, lv \in Levels}
    \union WholeGridScores(N)

\* l.262-288: the measurements, of the borders that get one
measurements(N, hp, vp, score) == [b \in measured(N, hp, vp) |-> score[b]]

\* the peaks a run of the whole pipeline is given: none, two close ones, a
\* lattice of small cells, a lattice of large cells
PipelineCands(H) ==
    {p \in {<<>>, <<5, 7>>, SmallLattice(MinN), LargeLattice(MinN)} :
        \A i \in 1..Len(p) : p[i] < H}

\* the texts _ocr_crop returns on the crops of the image of a run
PipelineOcrSets ==
    {{<<>>}, {<<"8", "+">>, <<>>}, {<<"8">>, <<"²">>, <<>>}, {<<"0", "0">>}}

\* ------------------------------------------------------------- the run

Located == <<resA, resB, gh, gw>>
Lines == <<h_cands, v_cands, n, h_pos, v_pos>>
Cages == <<darkness, h_thick, v_thick, cages>>
OneCrop == <<cfg_out, voted, crop_text, retry_reads>>
Labels == <<results, idx>>
Output == <<doc, written, parsed>>

\* l.988-991 of main: the path is not a file
StepMain ==
    /\ pc = "main"
    /\ \E is_file \in BOOLEAN :
          IF is_file THEN pc' = "imread" /\ err' = err
          ELSE pc' = "exit" /\ err' = "NotFound"
    /\ UNCHANGED <<engine_ok, forced, Located, Lines, Cages, ocr_set, OneCrop, Labels,
                   Output, stages>>

\* l.928-931 of ocr_mathdoku: the image cannot be read
StepImread ==
    /\ pc = "imread"
    /\ \E img \in BOOLEAN :
          IF img THEN pc' = "strategyA" /\ err' = err
          ELSE pc' = "exit" /\ err' = "FileNotFoundError"
    /\ UNCHANGED <<engine_ok, forced, Located, Lines, Cages, ocr_set, OneCrop, Labels,
                   Output, stages>>

\* the white-region strategy runs whatever the line strategy returned
after_lines_always_white(r) == "strategyB"

\* l.132-135: the white-region strategy runs when the line strategy returned
\* nothing
after_lines(r) == IF r = "none" THEN "strategyB" ELSE "lines"

\* the sides of the bounding boxes
BoxSizes == {Extent, LargeExtent}

\* l.132 of _find_grid_bbox: result = _find_via_lines()
StepViaLines ==
    /\ pc = "strategyA"
    /\ \E r \in {"none", "box"} :
          /\ resA' = r
          /\ pc' = after_lines(r)
          /\ IF r = "box" THEN \E size \in BoxSizes : gh' = size /\ gw' = size
             ELSE gh' = gh /\ gw' = gw
    /\ stages' = Append(stages, "locate")
    /\ UNCHANGED <<engine_ok, forced, resB, Lines, Cages, ocr_set, OneCrop, Labels,
                   Output, err>>

\* l.133-138: result = _find_via_white_region(); ValueError when it is None
StepViaWhite ==
    /\ pc = "strategyB"
    /\ \E r \in {"none", "box"} :
          /\ resB' = r
          /\ IF r = "box"
             THEN /\ \E size \in BoxSizes : gh' = size /\ gw' = size
                  /\ pc' = "lines" /\ err' = err
             ELSE /\ gh' = gh /\ gw' = gw
                  /\ pc' = "exit" /\ err' = "GridNotFound"
    /\ UNCHANGED <<engine_ok, forced, resA, Lines, Cages, ocr_set, OneCrop, Labels,
                   Output, stages>>

\* step 2 of ocr_mathdoku: h_cands, v_cands = _detect_line_positions(...)
StepLines ==
    /\ pc = "lines"
    /\ \E p \in PipelineCands(gh) : h_cands' = p /\ v_cands' = p
    /\ pc' = "size"
    /\ stages' = Append(stages, "lines")
    /\ UNCHANGED <<engine_ok, forced, Located, n, h_pos, v_pos, Cages, ocr_set, OneCrop,
                   Labels, Output, err>>

\* step 3 of ocr_mathdoku: n_detected, h_pos, v_pos = _detect_size_and_lines(
\* h_cands, v_cands, gh, gw, n); if n is None: n = n_detected
StepSize ==
    /\ pc = "size"
    /\ LET d == detect_size_and_lines(h_cands, v_cands, gh, gw, forced)
       IN  /\ n' = IF forced = 0 THEN d[1] ELSE forced
           /\ h_pos' = d[2]
           /\ v_pos' = d[3]
    /\ pc' = "borders"
    /\ stages' = Append(stages, "size")
    /\ UNCHANGED <<engine_ok, forced, Located, h_cands, v_cands, Cages, ocr_set, OneCrop,
                   Labels, Output, err>>

\* step 4 of ocr_mathdoku: h_thick, v_thick = _classify_borders(...)
StepBorders ==
    /\ pc = "borders"
    /\ \E score \in BorderScores(n) :
          LET m == classify_borders(n, h_pos, v_pos, score)
          IN  /\ darkness' = measurements(n, h_pos, v_pos, score)
              /\ h_thick' = m[1] /\ v_thick' = m[2]
    /\ pc' = "cages"
    /\ stages' = Append(stages, "borders")
    /\ UNCHANGED <<engine_ok, forced, Located, Lines, cages, ocr_set, OneCrop, Labels,
                   Output, err>>

\* step 5 of ocr_mathdoku: cages = _group_cages(n, h_thick, v_thick)
StepGroupCages ==
    /\ pc = "cages"
    /\ cages' = group_cages(n, h_thick, v_thick)
    /\ pc' = "tesseract"
    /\ stages' = Append(stages, "cages")
    /\ UNCHANGED <<engine_ok, forced, Located, Lines, darkness, h_thick, v_thick,
                   ocr_set, OneCrop,
                   Labels, Output, err>>

\* l.727 of _read_cage_labels: _require_tesseract(), l.366-383
StepRequireTesseract ==
    /\ pc = "tesseract"
    /\ IF engine_ok
       THEN pc' = "read" /\ err' = err /\ stages' = Append(stages, "labels")
       ELSE pc' = "exit" /\ err' = "NoEngine" /\ stages' = stages
    /\ UNCHANGED <<engine_ok, forced, Located, Lines, Cages, ocr_set, OneCrop, Labels,
                   Output>>

\* where the reader goes once a loop over the cages has ended: pass 1 runs on
\* an upscaled grid only (l.816), pass 2 when operators are shown (l.853)
after_first_pass(res) ==
    IF grid_up(n, h_pos, v_pos) THEN "pass1"
    ELSE IF ops_shown(res, cages) THEN "pass2" ELSE "assemble"

after_pass1(res) == IF ops_shown(res, cages) THEN "pass2" ELSE "assemble"

\* the cell of the label of the cage at index i (from 0): its first cell
label_cell(i) == cell_dims(h_pos, v_pos, cages[i + 1][1])

\* l.750-811: one turn of the first loop
StepReadLabel ==
    /\ pc = "read"
    /\ \E pair \in first_pass_pairs(ocr_set, upscale_of(n, h_pos, v_pos),
                                     label_cell(idx)[1], label_cell(idx)[2]) :
          /\ results' = Append(results, pair)
          /\ IF idx + 1 < Len(cages)
             THEN idx' = idx + 1 /\ pc' = pc
             ELSE idx' = 0 /\ pc' = after_first_pass(results')
    /\ UNCHANGED <<engine_ok, forced, Located, Lines, Cages, ocr_set, OneCrop, Output,
                   err, stages>>

\* l.817-846: one turn of the loop of pass 1
StepRetryLabel ==
    /\ pc = "pass1"
    /\ \E pair \in pass1_pairs(ocr_set, results[idx + 1][1], results[idx + 1][2],
                                label_cell(idx)[1], label_cell(idx)[2]) :
          /\ results' = [results EXCEPT ![idx + 1] = pair]
          /\ IF idx + 1 < Len(results)
             THEN idx' = idx + 1 /\ pc' = pc
             ELSE idx' = 0 /\ pc' = after_pass1(results')
    /\ UNCHANGED <<engine_ok, forced, Located, Lines, Cages, ocr_set, OneCrop, Output,
                   err, stages>>

\* l.856-916: one turn of the loop of pass 2
StepEnforceOp ==
    /\ pc = "pass2"
    /\ \E pair \in pass2_pairs(ocr_set, results[idx + 1][1], results[idx + 1][2],
                                cages[idx + 1], upscale_of(n, h_pos, v_pos),
                                label_cell(idx)[1], label_cell(idx)[2]) :
          /\ results' = [results EXCEPT ![idx + 1] = pair]
          /\ IF idx + 1 < Len(results)
             THEN idx' = idx + 1 /\ pc' = pc
             ELSE idx' = 0 /\ pc' = "assemble"
    /\ UNCHANGED <<engine_ok, forced, Located, Lines, Cages, ocr_set, OneCrop, Output,
                   err, stages>>

\* step 7 of ocr_mathdoku, l.958-976: int() of a value that is a digit to
\* str.isdigit() and no decimal number raises ValueError
StepAssemble ==
    /\ pc = "assemble"
    /\ IF \E i \in 1..ZipLen(cages, results) :
             isdigit(results[i][1]) /\ int_raises(results[i][1])
       THEN pc' = "exit" /\ err' = "ValueError" /\ doc' = doc
       ELSE pc' = "write" /\ err' = err /\ doc' = <<result_doc(n, cages, results)>>
    /\ UNCHANGED <<engine_ok, forced, Located, Lines, Cages, ocr_set, OneCrop, Labels,
                   written, parsed, stages>>

\* l.996-998 of main: the document is written
StepWrite ==
    /\ pc = "write"
    /\ written' = TRUE
    /\ pc' = "done"
    /\ UNCHANGED <<engine_ok, forced, Located, Lines, Cages, ocr_set, OneCrop, Labels,
                   doc, parsed, err, stages>>

\* the run has not reached the label reader
NoLabelsYet ==
    /\ results = <<>> /\ idx = 0 /\ doc = <<>> /\ written = FALSE /\ parsed = <<>>
    /\ err = ""
    /\ cfg_out = <<>> /\ voted = <<>> /\ crop_text = <<>> /\ retry_reads = <<>>

\* A run of main on some image.
Init ==
    /\ pc = "main"
    /\ engine_ok \in BOOLEAN
    /\ forced = 0
    /\ resA = "unset" /\ resB = "unset" /\ gh = 0 /\ gw = 0
    /\ h_cands = <<>> /\ v_cands = <<>> /\ n = 0 /\ h_pos = <<>> /\ v_pos = <<>>
    /\ darkness = EmptyMap /\ h_thick = EmptyMap /\ v_thick = EmptyMap /\ cages = <<>>
    /\ ocr_set \in PipelineOcrSets
    /\ NoLabelsYet
    /\ stages = <<>>

Next ==
    \/ StepMain \/ StepImread \/ StepViaLines \/ StepViaWhite \/ StepLines
    \/ StepSize \/ StepBorders \/ StepGroupCages \/ StepRequireTesseract
    \/ StepReadLabel \/ StepRetryLabel \/ StepEnforceOp \/ StepAssemble
    \/ StepWrite

Spec == Init /\ [][Next]_vars

\* _detect_size_and_lines on the peak lists of CandLists, with and without a
\* forced size.
InitLines ==
    /\ pc = "size"
    /\ engine_ok = TRUE
    /\ forced \in {0} \union (MinN..MaxN)
    /\ resA = "box" /\ resB = "unset"
    /\ gh = Extent /\ gw = Extent
    /\ h_cands \in CandLists
    /\ v_cands \in OtherAxis(h_cands)
    /\ n = 0 /\ h_pos = <<>> /\ v_pos = <<>>
    /\ darkness = EmptyMap /\ h_thick = EmptyMap /\ v_thick = EmptyMap /\ cages = <<>>
    /\ ocr_set = {<<>>}
    /\ NoLabelsYet
    /\ stages = <<"locate", "lines">>

SpecLines == InitLines /\ [][StepSize]_vars

\* _group_cages on the maps of a base pattern with some borders changed.
InitCages ==
    /\ pc = "cages"
    /\ engine_ok = TRUE
    /\ forced = 0 /\ resA = "box" /\ resB = "unset"
    /\ n \in MinN..MaxGridN
    /\ gh = LargeLattice(n)[n + 1] + 1 /\ gw = gh
    /\ h_cands = LargeLattice(n) /\ v_cands = h_cands
    /\ h_pos = h_cands /\ v_pos = h_cands
    /\ \E kind \in BaseKinds, pert \in Perturbations(n) :
          /\ h_thick = MapOf(n, kind, pert, "h")
          /\ v_thick = MapOf(n, kind, pert, "v")
    /\ darkness = EmptyMap
    /\ cages = <<>>
    /\ ocr_set = {<<>>}
    /\ NoLabelsYet
    /\ stages = <<"locate", "lines", "size", "borders">>

SpecCages == InitCages /\ [][StepGroupCages]_vars

\* _classify_borders from its measurements on (l.290-322), then _group_cages:
\* the measurements of the images of four layouts, of the images without a
\* cage boundary and of the images of three shades.
InitBorders ==
    /\ pc = "classify"
    /\ engine_ok = TRUE
    /\ forced = 0 /\ resA = "box" /\ resB = "unset"
    /\ n = MinN
    /\ h_cands \in {TightLattice(n), SmallLattice(n), LargeLattice(n)}
    /\ v_cands = h_cands /\ h_pos = h_cands /\ v_pos = h_cands
    /\ gh = h_cands[n + 1] + 1 /\ gw = gh
    /\ \E score \in BorderScores(n) \union GradedScores(n) \union SpurScores(n) :
          darkness = measurements(n, h_pos, v_pos, score)
    /\ h_thick = EmptyMap /\ v_thick = EmptyMap
    /\ cages = <<>>
    /\ ocr_set = {<<>>}
    /\ NoLabelsYet
    /\ stages = <<"locate", "lines", "size">>

\* l.290-322 of _classify_borders: the classes of the measurements
StepClassify ==
    /\ pc = "classify"
    /\ LET m == classify_borders(n, h_pos, v_pos, darkness)
       IN  h_thick' = m[1] /\ v_thick' = m[2]
    /\ pc' = "cages"
    /\ stages' = Append(stages, "borders")
    /\ UNCHANGED <<engine_ok, forced, Located, Lines, darkness, cages, ocr_set, OneCrop,
                   Labels, Output, err>>

NextBorders == StepClassify \/ StepGroupCages

SpecBorders == InitBorders /\ [][NextBorders]_vars

\* ocr_mathdoku from _group_cages on, on the same maps: an image of small
\* cells, so that both passes of the label reader run, where every label
\* reads 8+.
InitEmit ==
    /\ pc = "cages"
    /\ engine_ok = TRUE
    /\ forced = 0 /\ resA = "box" /\ resB = "unset"
    /\ n \in MinN..MaxGridN
    /\ h_cands = SmallLattice(n)
    /\ ocr_set = {<<"8", "+">>}
    /\ v_cands = h_cands /\ h_pos = h_cands /\ v_pos = h_cands
    /\ gh = h_cands[n + 1] + 1 /\ gw = gh
    /\ \E kind \in BaseKinds, pert \in Perturbations(n) :
          /\ h_thick = MapOf(n, kind, pert, "h")
          /\ v_thick = MapOf(n, kind, pert, "v")
    /\ darkness = EmptyMap
    /\ cages = <<>>
    /\ NoLabelsYet
    /\ stages = <<"locate", "lines", "size", "borders">>

NextEmit ==
    \/ StepGroupCages \/ StepRequireTesseract \/ StepReadLabel
    \/ StepRetryLabel \/ StepEnforceOp \/ StepAssemble \/ StepWrite

SpecEmit == InitEmit /\ [][NextEmit]_vars

\* _read_cage_labels and the assembly of the result on the cages of a
\* layout, on small and on large cells, with every text _ocr_crop can return.
InitLabels ==
    /\ pc = "read"
    /\ engine_ok = TRUE
    /\ forced = 0 /\ resA = "box" /\ resB = "unset"
    /\ n = MinN
    /\ h_cands \in {SmallLattice(n), LargeLattice(n)}
    /\ v_cands = h_cands /\ h_pos = h_cands /\ v_pos = h_cands
    /\ gh = h_cands[n + 1] + 1 /\ gw = gh
    /\ \E kind \in LayoutKinds \ {"singles"} :
          LET m == classify_borders(n, h_pos, v_pos, ScoreMap(n, kind, <<5, 1>>))
          IN  /\ darkness = measurements(n, h_pos, v_pos, ScoreMap(n, kind, <<5, 1>>))
              /\ h_thick = m[1] /\ v_thick = m[2]
              /\ cages = group_cages(n, m[1], m[2])
    /\ ocr_set = OcrOutcomes
    /\ NoLabelsYet
    /\ stages = <<"locate", "lines", "size", "borders", "cages", "labels">>

NextLabels ==
    \/ StepReadLabel \/ StepRetryLabel \/ StepEnforceOp \/ StepAssemble
    \/ StepWrite

SpecLabels == InitLabels /\ [][NextLabels]_vars

\* _ocr_crop on one crop, with up to MaxAnswers configurations.
InitOcr ==
    /\ pc = "ocr_crop"
    /\ engine_ok = TRUE
    /\ forced = 0 /\ resA = "box" /\ resB = "unset"
    /\ n = MinN
    /\ h_cands = LargeLattice(n)
    /\ v_cands = h_cands /\ h_pos = h_cands /\ v_pos = h_cands
    /\ gh = h_cands[n + 1] + 1 /\ gw = gh
    /\ darkness = EmptyMap /\ h_thick = EmptyMap /\ v_thick = EmptyMap
    /\ cages = <<>>
    /\ ocr_set = {<<>>}
    /\ results = <<>> /\ idx = 0 /\ doc = <<>> /\ written = FALSE /\ parsed = <<>>
    /\ err = ""
    /\ cfg_out \in SeqsUpTo(ConfigOutcomes, MaxAnswers)
    /\ voted = <<>> /\ crop_text = <<>> /\ retry_reads = <<>>
    /\ stages = <<"locate", "lines", "size", "borders", "cages", "labels">>

\* _ocr_crop, l.570-594, on a crop of h rows and w columns
StepOcrCrop ==
    /\ pc = "ocr_crop"
    /\ \E h \in {9, 10}, w \in {9, 10}, trimmed \in BOOLEAN :
          /\ crop_text' = ocr_crop(h, w, trimmed, answered(cfg_out))
          /\ IF h < 10 \/ w < 10 \/ ~trimmed
             THEN voted' = voted /\ pc' = "ocr_unread"
             ELSE voted' = run_tesseract(answered(cfg_out)) /\ pc' = "ocr_read"
    /\ UNCHANGED <<engine_ok, forced, Located, Lines, Cages, ocr_set, cfg_out,
                   retry_reads, Labels, Output, err, stages>>

SpecOcr == InitOcr /\ [][StepOcrCrop]_vars

\* The retries of one label, read one after the other.

\* a retry whose crop is empty or less than 5 rows high is skipped
\* (l.831-832, l.882-883)
Skipped == <<"skip", <<>>>>

\* a retry that is taken whatever its digits
retry_accepts_any_digits(value, out) ==
    /\ out # Skipped
    /\ LET m == label_match(out[2])
       IN  m # NoMatch /\ m[2] # None /\ m[2] # "?"

\* l.887-893: strategy 2 takes a retry that matches with a real operator
\* and, for a value of one or two characters, with the same digits
retry_accepts_op(value, out) ==
    /\ out # Skipped
    /\ LET m == label_match(out[2])
       IN  /\ m # NoMatch /\ m[2] # None /\ m[2] # "?"
           /\ ~(Len(value) <= 2 /\ m[1] # value)

\* l.876-902: the retries at 4x and 6x, margins 2, 3, 4, in order, up to
\* the first that is taken: <<found, pair, retries not made>>
RECURSIVE retry_operator(_, _)
retry_operator(value, outs) ==
    IF Len(outs) = 0 THEN <<FALSE, <<value, None>>, <<>>>>
    ELSE IF retry_accepts_op(value, Head(outs))
    THEN LET m == label_match(Head(outs)[2]) IN <<TRUE, <<m[1], m[2]>>, Tail(outs)>>
    ELSE retry_operator(value, Tail(outs))

\* a retry that is taken whatever its operator
retry_accepts_any_op(value, op, out) ==
    /\ out # Skipped
    /\ LET m == label_match(out[2])
       IN  m # NoMatch /\ Len(m[1]) > Len(value)

\* l.837-841: pass 1 takes a retry that matches with more digits and with
\* no operator other than the one the label has
retry_accepts_longer(value, op, out) ==
    /\ out # Skipped
    /\ LET m == label_match(out[2])
       IN  /\ m # NoMatch /\ Len(m[1]) > Len(value)
           /\ ~(op # None /\ m[2] # None /\ m[2] # op)

\* l.825-846: the retries at margins 3 and 4, in order, up to the first that
\* is taken: <<pair, retries not made>>
RECURSIVE two_digit_retries(_, _, _)
two_digit_retries(value, op, outs) ==
    IF Len(outs) = 0 THEN <<<<value, op>>, <<>>>>
    ELSE IF retry_accepts_longer(value, op, Head(outs))
    THEN LET m == label_match(Head(outs)[2])
         IN  <<<<m[1], IF m[2] # None THEN m[2] ELSE op>>, Tail(outs)>>
    ELSE two_digit_retries(value, op, Tail(outs))

\* l.818-846: one turn of the loop of pass 1
two_digit_retry(value, op, outs) ==
    IF Len(value) = 0 \/ value = QMark \/ Len(value) # 2 THEN <<<<value, op>>, outs>>
    ELSE two_digit_retries(value, op, outs)

\* the margins of pass 1 (l.825) and the scales and margins of strategy 2
\* (l.876-877), in the order of the loops
TwoDigitMargins == <<3, 4>>
OperatorRetries == <<<<4, 2>>, <<4, 3>>, <<4, 4>>, <<6, 2>>, <<6, 3>>, <<6, 4>>>>

\* what _ocr_crop returns on a retry of strategy 2, and on one of pass 1
OperatorRetryTexts == {<<"8", "-">>, <<"8", "?">>, <<"9", "+">>, <<"8">>}
TwoDigitRetryTexts ==
    {<<"1", "2", "8", "x">>, <<"1", "2", "8">>, <<"1", ",", "2">>, <<"1", "3", "-">>,
     <<"1", "2">>, <<"a", "b">>, <<"1", "2", "8", "-">>}

\* the sequences of length Len(plan) of retries that answer a text of texts
\* or are skipped
RetryOutcomes(plan, texts) ==
    [1..Len(plan) -> {Answered(t) : t \in texts} \union {Skipped}]

\* the labels pass 1 finds, and those that reach strategy 2: no operator,
\* and no value of two digits or more that ends in 0 or 4
TwoDigitLabels ==
    {<<<<"1", "2">>, None>>, <<<<"1", "2">>, "-">>, <<<<"8">>, None>>,
     <<<<"1", "2", "8">>, None>>, <<QMark, None>>}
OperatorLabels == {<<<<"8">>, None>>, <<<<"1", "2", "8">>, None>>}

\* One label before pass 1 with its two retries, or one label of a cage of
\* two cells in strategy 2 with its six retries.
InitRetry ==
    /\ engine_ok = TRUE
    /\ forced = 0 /\ resA = "box" /\ resB = "unset"
    /\ n = MinN
    /\ h_cands = SmallLattice(n)
    /\ v_cands = h_cands /\ h_pos = h_cands /\ v_pos = h_cands
    /\ gh = h_cands[n + 1] + 1 /\ gw = gh
    /\ darkness = EmptyMap /\ h_thick = EmptyMap /\ v_thick = EmptyMap
    /\ cages = <<<<<<0, 0>>, <<0, 1>>>>>>
    /\ ocr_set = {<<>>}
    /\ idx = 0 /\ doc = <<>> /\ written = FALSE /\ parsed = <<>>
    /\ err = ""
    /\ cfg_out = <<>> /\ voted = <<>> /\ crop_text = <<>>
    /\ \/ /\ pc = "two_digit"
          /\ results \in {<<l>> : l \in TwoDigitLabels}
          /\ retry_reads \in RetryOutcomes(TwoDigitMargins, TwoDigitRetryTexts)
       \/ /\ pc = "strategy2"
          /\ results \in {<<l>> : l \in OperatorLabels}
          /\ retry_reads \in RetryOutcomes(OperatorRetries, OperatorRetryTexts)
    /\ stages = <<"locate", "lines", "size", "borders", "cages", "labels">>

\* l.818-846: the turn of pass 1 for the label
StepTwoDigitRetry ==
    /\ pc = "two_digit"
    /\ LET r == two_digit_retry(results[1][1], results[1][2], retry_reads)
       IN  results' = <<r[1]>> /\ retry_reads' = r[2]
    /\ pc' = "two_digit_done"
    /\ UNCHANGED <<engine_ok, forced, Located, Lines, Cages, ocr_set, cfg_out, voted,
                   crop_text, idx, Output, err, stages>>

\* l.870-904: strategy 2 for the label
StepRetryOperator ==
    /\ pc = "strategy2"
    /\ LET r == retry_operator(results[1][1], retry_reads)
       IN  /\ results' = <<r[2]>> /\ retry_reads' = r[3]
           /\ pc' = IF r[1] THEN "found" ELSE "strategy3"
    /\ UNCHANGED <<engine_ok, forced, Located, Lines, Cages, ocr_set, cfg_out, voted,
                   crop_text, idx, Output, err, stages>>

NextRetry == StepTwoDigitRetry \/ StepRetryOperator

SpecRetry == InitRetry /\ [][NextRetry]_vars

\* ------------------------------- the cell references, read back (consumer)

AsciiUpper ==
    <<"A", "B", "C", "D", "E", "F", "G", "H", "I", "J", "K", "L", "M",
      "N", "O", "P", "Q", "R", "S", "T", "U", "V", "W", "X", "Y", "Z">>
AsciiLower ==
    <<"a", "b", "c", "d", "e", "f", "g", "h", "i", "j", "k", "l", "m",
      "n", "o", "p", "q", "r", "s", "t", "u", "v", "w", "x", "y", "z">>

\* str.upper() of one character: of the characters used here, the ASCII
\* letters change
upper_char(ch) ==
    IF \E i \in 1..26 : AsciiLower[i] = ch
    THEN AsciiUpper[CHOOSE i \in 1..26 : AsciiLower[i] = ch]
    ELSE ch

\* str.upper()
upper(text) == [i \in 1..Len(text) |-> upper_char(text[i])]

\* ord(col_ch) - ord("A") of a character of [A-Z]
column_of(col_ch) == (CHOOSE i \in 1..26 : AsciiUpper[i] = col_ch) - 1

\* CELL_RE.match(s), on a text without a newline at its end:
\* <<group(1), group(2)>>, or NoMatch.   ^([A-Z])([1-9][0-9]*)$
cell_re_match(s) ==
    IF /\ Len(s) >= 2
       /\ \E i \in 1..26 : AsciiUpper[i] = s[1]
       /\ s[2] \in AsciiDigits \ {"0"}
       /\ \A i \in 3..Len(s) : s[i] \in AsciiDigits
    THEN <<s[1], SubSeq(s, 2, Len(s))>>
    ELSE NoMatch

\* what _parse_cell gives when it raises ValueError
BadCell == <<"ValueError">>

\* a range test that takes n for a row and a column as well
parse_cell_through_n(token, N) ==
    LET m == cell_re_match(upper(strip(token)))
    IN  IF m = NoMatch THEN BadCell
        ELSE LET c == column_of(m[1])
                 r == int_of(m[2]) - 1
             IN  IF ~(0 <= r /\ r <= N /\ 0 <= c /\ c <= N) THEN BadCell
                 ELSE <<r, c>>

\* _parse_cell(token, n=N): <<r, c>>, or BadCell
parse_cell(token, N) ==
    LET m == cell_re_match(upper(strip(token)))
    IN  IF m = NoMatch THEN BadCell
        ELSE LET c == column_of(m[1])
                 r == int_of(m[2]) - 1
             IN  IF ~(0 <= r /\ r < N /\ 0 <= c /\ c < N) THEN BadCell
                 ELSE <<r, c>>

\* the characters of a reference somebody typed
TypedChars == {"A", "D", "E", "I", "J", "Z", "a", "i", "0", "1", "4", "5", "9", " "}

\* references typed into a document: all texts of up to three of these
\* characters, and some longer ones
TypedRefs ==
    SeqsUpTo(TypedChars, 3)
        \union {<<" ", "a", "1", " ">>, <<"A", "1", "0">>, <<"D", "4", "\n">>,
                <<"I", "1", "0", "0">>}

\* the document of one single-cell cage with the reference ref
typed_doc(N, ref) ==
    [size |-> N, difficulty |-> "?", operations |-> FALSE,
     cages |-> <<[cells |-> <<ref>>, value |-> <<"int", 1>>]>>]

\* One cell of a grid of n, written by ocr_mathdoku and read back by
\* make_mathdoku_pptx; or one reference typed into a document and read.
InitCells ==
    /\ engine_ok = TRUE
    /\ forced = 0 /\ resA = "box" /\ resB = "unset"
    /\ n \in MinN..MaxN
    /\ h_cands = LargeLattice(n)
    /\ v_cands = h_cands /\ h_pos = h_cands /\ v_pos = h_cands
    /\ gh = h_cands[n + 1] + 1 /\ gw = gh
    /\ darkness = EmptyMap /\ h_thick = EmptyMap /\ v_thick = EmptyMap
    /\ ocr_set = {<<>>}
    /\ idx = 0 /\ written = FALSE /\ parsed = <<>> /\ err = ""
    /\ cfg_out = <<>> /\ voted = <<>> /\ crop_text = <<>> /\ retry_reads = <<>>
    /\ \/ /\ pc = "assemble"
          /\ \E r \in 0..(n - 1), c \in 0..(n - 1) : cages = <<<<<<r, c>>>>>>
          /\ results = <<<<<<"1">>, None>>>>
          /\ doc = <<>>
       \/ /\ pc = "parse_cell"
          /\ cages = <<>> /\ results = <<>>
          /\ \E ref \in TypedRefs : doc = <<typed_doc(n, ref)>>
    /\ stages = <<"locate", "lines", "size", "borders", "cages", "labels">>

\* l.958-968 of ocr_mathdoku: the document of the cages
StepCellA1 ==
    /\ pc = "assemble"
    /\ doc' = <<result_doc(n, cages, results)>>
    /\ pc' = "parse_cell"
    /\ UNCHANGED <<engine_ok, forced, Located, Lines, Cages, ocr_set, OneCrop, Labels,
                   written, parsed, err, stages>>

\* l.661 of cages_from_yaml: the first reference of the first cage is parsed
\* for the size of the document
StepParseCell ==
    /\ pc = "parse_cell"
    /\ LET p == parse_cell(doc[1].cages[1].cells[1], doc[1].size)
       IN  IF p = BadCell
           THEN parsed' = parsed /\ err' = "ValueError" /\ pc' = "exit"
           ELSE parsed' = <<p>> /\ err' = err /\ pc' = "parsed"
    /\ UNCHANGED <<engine_ok, forced, Located, Lines, Cages, ocr_set, OneCrop, Labels,
                   doc, written, stages>>

NextCells == StepCellA1 \/ StepParseCell

SpecCells == InitCells /\ [][NextCells]_vars

\* ------------------------------------------------------------- claims: lines

\* C5: the fitted lines of both axes have n + 1 entries and are strictly
\* increasing, whatever the peak lists and whether the size was forced.
C5_LinesStrictlyIncreasing ==
    pc = "borders" =>
        /\ Len(h_pos) = n + 1 /\ Len(v_pos) = n + 1
        /\ Increasing(h_pos) /\ Increasing(v_pos)

\* C6: without a forced size the size returned has the least summed score of
\* the sizes 4..9 and every smaller size scores strictly worse; a forced size
\* is returned as it is, with the lines fitted for it.
C6_SizeIsSmallestMinimum ==
    pc = "borders" =>
        IF forced # 0
        THEN /\ n = forced
             /\ h_pos = fit_lines(h_cands, gh, forced)
             /\ v_pos = fit_lines(v_cands, gw, forced)
        ELSE /\ n \in MinN..MaxN
             /\ \A k \in MinN..MaxN :
                    /\ ScoreLessEq(total_score(h_cands, v_cands, gh, gw, n),
                                   total_score(h_cands, v_cands, gh, gw, k))
                    /\ k < n => ScoreLess(total_score(h_cands, v_cands, gh, gw, n),
                                          total_score(h_cands, v_cands, gh, gw, k))

\* C6 witness: no size was forced, two sizes share the least score, which is
\* finite, and the smaller of them, not the first size tried, was returned.
C6_Witness ==
    /\ pc = "borders" /\ forced = 0 /\ n > MinN
    /\ \E k \in (n + 1)..MaxN :
           /\ ScoreLessEq(total_score(h_cands, v_cands, gh, gw, k),
                          total_score(h_cands, v_cands, gh, gw, n))
           /\ ~total_score(h_cands, v_cands, gh, gw, n).inf

\* ------------------------------------------------- what the cages should be

\* the thin edges of the cell graph: a pair of neighbours whose shared border
\* has an entry, and the entry is false
ThinEdges(N, ht, vt) ==
    {<<<<k[1], k[2] - 1>>, k>> : k \in {x \in VKeys(N) : x \in DOMAIN vt /\ vt[x] = FALSE}}
    \union
    {<<<<k[1] - 1, k[2]>>, k>> : k \in {x \in HKeys(N) : x \in DOMAIN ht /\ ht[x] = FALSE}}

\* the cells a path of thin edges reaches from the cells of S
RECURSIVE Reach(_, _)
Reach(E, S) ==
    LET T == S \union {e[2] : e \in {x \in E : x[1] \in S}}
                \union {e[1] : e \in {x \in E : x[2] \in S}}
    IN  IF T = S THEN S ELSE Reach(E, T)

\* the connected components of the thin-edge graph
RECURSIVE ComponentsOf(_, _)
ComponentsOf(E, todo) ==
    IF todo = {} THEN {}
    ELSE LET a == CHOOSE x \in todo : TRUE
             comp == Reach(E, {a})
         IN  {comp} \union ComponentsOf(E, todo \ comp)

SeqRange(s) == {s[i] : i \in 1..Len(s)}

CageSets == {SeqRange(cages[i]) : i \in 1..Len(cages)}

\* C2: the cages are exactly the connected components of the graph whose
\* edges are the borders present in the maps with the value false; a border
\* without an entry joins nothing.
C2_CagesAreThinComponents ==
    pc = "tesseract" =>
        CageSets = ComponentsOf(ThinEdges(n, h_thick, v_thick), Cells(n))

\* C2 witness: grouping has run on partial maps where a cage of three or more
\* cells was formed next to a border that has no entry.
C2_Witness ==
    /\ pc = "tesseract"
    /\ \E i \in 1..Len(cages) : Len(cages[i]) >= 3
    /\ \E k \in VKeys(n) : k \notin DOMAIN v_thick
    /\ \E k \in HKeys(n) : k \in DOMAIN h_thick /\ ~h_thick[k]

\* ------------------------------------------------------- claims: the cages

\* where cell occurs in a list of lists of cells
Places(lists, cell) ==
    {p \in UNION {{<<i, j>> : j \in 1..Len(lists[i])} : i \in 1..Len(lists)} :
        lists[p[1]][p[2]] = cell}

\* the cell lists of the document
EmittedCells == [i \in 1..Len(doc[1].cages) |-> doc[1].cages[i].cells]

\* C1: for any thick-maps the cages _group_cages returns are not empty and
\* every cell of the grid is in exactly one of them; the document ocr_mathdoku
\* returns lists the same cages in the same order, so every cell reference is
\* in exactly one emitted cage.
C1_EmittedCagesPartitionGrid ==
    /\ pc = "tesseract" =>
          /\ \A i \in 1..Len(cages) :
                 /\ Len(cages[i]) > 0
                 /\ \A j \in 1..Len(cages[i]) : cages[i][j] \in Cells(n)
          /\ \A cell \in Cells(n) : Cardinality(Places(cages, cell)) = 1
    /\ pc = "write" =>
          /\ Len(EmittedCells) = Len(cages)
          /\ \A i \in 1..Len(cages) :
                 EmittedCells[i] =
                     [j \in 1..Len(cages[i]) |-> cell_a1(cages[i][j][1], cages[i][j][2])]
          /\ \A cell \in Cells(n) :
                 Cardinality(Places(EmittedCells, cell_a1(cell[1], cell[2]))) = 1

\* C1 witness: a document was written for maps that have entries for some
\* borders only, with several cages, one of them of three or more cells.
C1_Witness ==
    /\ written /\ doc # <<>>
    /\ Len(doc[1].cages) >= 2
    /\ \E i \in 1..Len(cages) : Len(cages[i]) >= 3
    /\ \E k \in HKeys(n) : k \notin DOMAIN h_thick
    /\ \E k \in HKeys(n) : k \in DOMAIN h_thick

\* ------------------------------------------------------ claims: the result

\* the five operators of the output
OutputOps == {"+", "-", "x", "/", "?"}

\* C3: in the document, operations is true iff at least one cage, of
\* whatever size, has the key op.
C3_OperationsIffSomeOp ==
    doc # <<>> =>
        (doc[1].operations <=>
            \E i \in 1..Len(doc[1].cages) : "op" \in DOMAIN doc[1].cages[i])

\* C3 witness: a document where the only cages with an operator are cages of
\* one cell, and operations is true.
C3_Witness ==
    /\ written /\ doc # <<>>
    /\ doc[1].operations
    /\ \A i \in 1..Len(doc[1].cages) :
           "op" \in DOMAIN doc[1].cages[i] => Len(doc[1].cages[i].cells) = 1

\* C4: whatever the engine answers, an operator the label reader attaches to
\* a cage, and the op of an emitted cage, is one of + - x / ?
C4_OpsAreTheFive ==
    /\ \A i \in 1..Len(results) : results[i][2] \in OutputOps \union {None}
    /\ doc # <<>> =>
          \A i \in 1..Len(doc[1].cages) :
              "op" \in DOMAIN doc[1].cages[i] => doc[1].cages[i].op \in OutputOps

\* C4 witness: a document with the labels the engine read as 128 and the
\* multiplication sign, and as 8 and the division sign: emitted as x and /.
C4_Witness ==
    /\ written /\ doc # <<>>
    /\ \E i \in 1..Len(doc[1].cages) :
           /\ "op" \in DOMAIN doc[1].cages[i]
           /\ doc[1].cages[i].op = "x" /\ doc[1].cages[i].value = <<"int", 128>>
    /\ \E i \in 1..Len(doc[1].cages) :
           "op" \in DOMAIN doc[1].cages[i] /\ doc[1].cages[i].op = "/"

\* ------------------------------------------------------ claims: the errors

\* C7: the white-region strategy is evaluated only after the line strategy
\* returned nothing; the grid is reported as not found iff both returned
\* nothing, and then no later stage has run and nothing is written.
C7_WhiteRegionOnlyAfterLinesFailed ==
    /\ resB # "unset" => resA = "none"
    /\ Len(stages) >= 2 => resA = "box" \/ resB = "box"
    /\ err = "GridNotFound" <=> (resA = "none" /\ resB = "none")
    /\ err = "GridNotFound" =>
          /\ pc = "exit"
          /\ stages = <<"locate">>
          /\ doc = <<>> /\ ~written

\* C7 witness: both strategies returned nothing and the run has ended.
C7_Witness ==
    pc = "exit" /\ err = "GridNotFound" /\ resA = "none" /\ resB = "none"

\* C8: with the engine missing no stage of image processing runs, and no
\* other error is reported in place of the one about the engine.
C8_EngineCheckedBeforeProcessing ==
    ~engine_ok => stages = <<>> /\ err # "GridNotFound"

\* every size scores +inf on the peaks of the run
AllInsufficient ==
    \A k \in MinN..MaxN : total_score(h_cands, v_cands, gh, gw, k).inf

\* C9: without a forced size, once size selection has found every size to
\* score +inf, the run has ended and no document exists.
C9_InsufficientLinesAreFatal ==
    (forced = 0 /\ Len(stages) >= 3 /\ AllInsufficient) =>
        pc = "exit" /\ doc = <<>> /\ ~written

\* C10: the label reader leaves one pair per cage, also after both passes,
\* no label makes the run abort, and the document has an entry per cage.
C10_EveryLabelReadNoneAborts ==
    /\ pc \in {"pass1", "pass2", "assemble", "write", "done"} =>
          Len(results) = Len(cages)
    /\ err = ""
    /\ pc = "done" => written /\ Len(doc[1].cages) = Len(cages)

\* ------------------------------------------------------ claims: one crop

\* the configurations of the crop, a raising one taken to answer nothing
RaisedAsEmpty == [i \in 1..Len(cfg_out) |-> IF cfg_out[i] = Raised THEN <<>> ELSE cfg_out[i][2]]

\* C11: a configuration whose call raises is skipped and the others are still
\* used, in their order: _run_tesseract returns what it returns when that
\* configuration answers the empty text.
C11_RaiseIsEmptyAnswer ==
    pc = "ocr_read" => voted = run_tesseract(RaisedAsEmpty)

\* C11 witness: the first configuration raised, a later one answered, and
\* the text returned is not empty.
C11_Witness ==
    /\ pc = "ocr_read"
    /\ Len(cfg_out) >= 2 /\ cfg_out[1] = Raised
    /\ Len(voted) > 0

\* C13: _ocr_crop returns the voted text with its digit string replaced by 9
\* exactly when that digit string is the text 0, with or without an operator
\* after it; every other voted text, 00 and 10 among them, is returned as it
\* is.
C13_OnlyExactZeroBecomesNine ==
    pc = "ocr_read" =>
        IF voted \in {<<"0">>} \union {<<"0", o>> : o \in LabelOps}
        THEN crop_text = [voted EXCEPT ![1] = "9"]
        ELSE crop_text = voted

\* C13 witness: the vote was for 0 with the operator +, returned as 9+.
C13_Witness ==
    pc = "ocr_read" /\ voted = <<"0", "+">> /\ crop_text = <<"9", "+">>

\* the digit strings of the configurations whose text parsed, in the order of
\* the configurations
Parsed ==
    LET reads == [i \in 1..Len(answered(cfg_out)) |-> read_one(answered(cfg_out)[i])]
        hits == SelectSeq(reads, LAMBDA r : r[1] # NoMatch)
    IN  [i \in 1..Len(hits) |-> hits[i][1][1]]

\* the digit string of the text the vote returned
Chosen ==
    IF voted[Len(voted)] \in LabelOps THEN SubSeq(voted, 1, Len(voted) - 1) ELSE voted

\* d is the winner of its length: no string of that length has more votes,
\* and none with as many was seen before it
WinsItsLength(d) ==
    \A i \in 1..Len(Parsed) :
        Len(Parsed[i]) = Len(d) =>
            \/ Count(Parsed, Parsed[i]) < Count(Parsed, d)
            \/ /\ Count(Parsed, Parsed[i]) = Count(Parsed, d)
               /\ FirstIndex(Parsed, d) <= i

\* a length is accepted iff its winner has two votes or more, or it is the
\* smallest length present
Accepted(d) ==
    \/ Count(Parsed, d) >= 2
    \/ \A i \in 1..Len(Parsed) : Len(d) <= Len(Parsed[i])

C12_ShownOpsEveryMultiCellHasOp ==
    (pc = "write" /\ ops_shown(results, cages)) =>
        \A i \in 1..Len(doc[1].cages) :
            Len(cages[i]) > 1 => "op" \in DOMAIN doc[1].cages[i]

\* C18: in the document, operations is true iff at least one cage of two
\* cells or more has the key op.
C18_OperationsIffMultiCellOp ==
    pc = "write" =>
        (doc[1].operations <=>
            \E i \in 1..Len(doc[1].cages) :
                Len(doc[1].cages[i].cells) > 1 /\ "op" \in DOMAIN doc[1].cages[i])

\* C14: one turn of pass 2 changes the label of its cage only; a cage of two
\* cells or more without operator whose value has two digits or more and
\* ends in 0 or 4 gets the value without its last digit and the operator +,
\* whatever the engine would read on a retry; a cage of one cell and a cage
\* with an operator keep their label.
C14_TrailingZeroOrFourIsPlus ==
    [][pc = "pass2" =>
          LET i == idx + 1
              value == results[i][1]
              op == results[i][2]
          IN  /\ Len(results') = Len(results)
              /\ \A j \in 1..Len(results) : j # i => results'[j] = results[j]
              /\ (Len(cages[i]) <= 1 \/ op # None) => results'[i] = results[i]
              /\ ( /\ Len(cages[i]) > 1 /\ op = None
                   /\ Len(value) >= 2 /\ value[Len(value)] \in {"0", "4"} )
                 => results'[i] = <<SubSeq(value, 1, Len(value) - 1), "+">>]_vars

\* C14 witness: pass 2 has ended and a cage of two cells or more has value 7
\* with operator +; the engine never answers a 7 with an operator, so the
\* label was 74 without operator.
C14_Witness ==
    /\ pc = "assemble"
    /\ \E i \in 1..Len(results) :
           Len(cages[i]) > 1 /\ results[i] = <<<<"7">>, "+">>

\* --------------------------------------------- claims: the border classes

\* whether _classify_borders marked the measured border b as thick
IsThick(b) == IF b[1] = "h" THEN h_thick[b[2]] ELSE v_thick[b[2]]

\* the thresholds the scores of an image allow: a score, or the floor
Thresholds == {darkness[b] : b \in DOMAIN darkness} \union {BorderFloor}

\* C15: when some border was measured, every score is in 0..255, every
\* measured border has a class, and one threshold of 3 or more separates the
\* classes: a border is thick iff its score is above it; so no border with a
\* score of 3 or less is thick.
C15_ThickIffAboveFlooredThreshold ==
    DOMAIN darkness # {} =>
        /\ \A b \in DOMAIN darkness : darkness[b] \in 0..255
        /\ {b[2] : b \in {x \in DOMAIN darkness : x[1] = "h"}} = DOMAIN h_thick
        /\ {b[2] : b \in {x \in DOMAIN darkness : x[1] = "v"}} = DOMAIN v_thick
        /\ \E t \in Thresholds :
               /\ t >= BorderFloor
               /\ \A b \in DOMAIN darkness : IsThick(b) <=> darkness[b] > t
        /\ \A b \in DOMAIN darkness : darkness[b] <= BorderFloor => ~IsThick(b)

\* C15 witness: the borders were classified on scores 1 and 2, which Otsu
\* separates at 1; with the floor no border is thick.
C15_Witness ==
    /\ pc = "cages"
    /\ {darkness[b] : b \in DOMAIN darkness} = {1, 2}
    /\ \A b \in DOMAIN darkness : ~IsThick(b)

\* C16: when the image shows thin lines only, measured at darkness that may
\* differ from one line to the other, the cages grouped from its borders are
\* one cage of all the cells.
C16_ThinLinesOnlyGiveOneCage ==
    ( /\ pc = "tesseract"
      /\ DOMAIN darkness # {}
      /\ darkness \in {measurements(n, h_pos, v_pos, s) : s \in WholeGridScores(n)} )
    => (Len(cages) = 1 /\ Len(cages[1]) = n * n)

\* ------------------------------------------------ claims: the cage order

\* C19: the cells of each cage are in increasing row-major order, so its
\* first cell is its top-left one, and the cages are in increasing row-major
\* order of their first cells; the document has one entry per cage, in the
\* order of the cages, entry k made of the cells of cage k and of the label
\* read for cage k.
C19_CagesAndLabelsInRowMajorOrder ==
    /\ \A i \in 1..Len(cages) :
           /\ Len(cages[i]) > 0
           /\ \A j \in 1..(Len(cages[i]) - 1) : CellLess(cages[i][j], cages[i][j + 1])
    /\ \A i \in 1..(Len(cages) - 1) : CellLess(cages[i][1], cages[i + 1][1])
    /\ pc = "write" =>
          /\ Len(doc[1].cages) = Len(cages) /\ Len(results) = Len(cages)
          /\ \A k \in 1..Len(cages) :
                 /\ doc[1].cages[k].cells =
                       [j \in 1..Len(cages[k]) |-> cell_a1(cages[k][j][1], cages[k][j][2])]
                 /\ doc[1].cages[k].value = entry_value(results[k][1])
                 /\ IF results[k][2] \in {None, ""}
                    THEN "op" \notin DOMAIN doc[1].cages[k]
                    ELSE /\ "op" \in DOMAIN doc[1].cages[k]
                         /\ doc[1].cages[k].op = results[k][2]

\* C19 witness: a document of three cages or more, among them a cage of one
\* cell followed by a cage of several, whose labels were read differently.
C19_Witness ==
    /\ pc = "write" /\ Len(cages) >= 3
    /\ \E k \in 1..(Len(cages) - 1) :
           /\ Len(cages[k]) = 1 /\ Len(cages[k + 1]) > 1
           /\ results[k] # results[k + 1]
           /\ "op" \in DOMAIN doc[1].cages[k + 1]
           /\ "op" \notin DOMAIN doc[1].cages[k]

\* ---------------------------------------------- claims: the operator vote

\* the operators, None for none, of the configurations that parsed with the
\* digit string returned, in the order of the configurations
ChosenOps ==
    LET reads == [i \in 1..Len(answered(cfg_out)) |-> read_one(answered(cfg_out)[i])]
        same == SelectSeq(reads, LAMBDA r : r[1] # NoMatch /\ r[1][1] = Chosen)
    IN  [i \in 1..Len(same) |-> same[i][1][2]]

\* the operator of the text the vote returned, None for none
AttachedOp == IF voted[Len(voted)] \in LabelOps THEN voted[Len(voted)] ELSE None

\* C21: when some configuration parsed and one with the returned digits
\* carries one of + - x /, the operator returned is the most frequent of
\* these, the first seen on equal counts, however many saw no operator;
\* when none does, ? is returned iff more of them carry ? than carry no
\* operator, and no operator otherwise.
C21_RealOperatorBeatsNoOperator ==
    (pc = "ocr_read" /\ Len(Parsed) > 0) =>
        LET real == {o \in {"+", "-", "x", "/"} : Count(ChosenOps, o) > 0}
        IN  IF real # {}
            THEN /\ AttachedOp \in real
                 /\ \A o \in real :
                        \/ Count(ChosenOps, o) < Count(ChosenOps, AttachedOp)
                        \/ /\ Count(ChosenOps, o) = Count(ChosenOps, AttachedOp)
                           /\ FirstIndex(ChosenOps, AttachedOp) <= FirstIndex(ChosenOps, o)
            ELSE AttachedOp = IF Count(ChosenOps, "?") > Count(ChosenOps, None)
                              THEN "?" ELSE None

\* C21 witness: two configurations read 8 without operator and one read 8
\* with +; 8+ was returned.
C21_Witness ==
    /\ pc = "ocr_read" /\ voted = <<"8", "+">>
    /\ Count(ChosenOps, None) = 2 /\ Count(ChosenOps, "+") = 1

\* ------------------------------------------ claims: the automatic threshold

\* the measured borders at or below a score, and above it
LowOf(t) == {b \in DOMAIN darkness : darkness[b] <= t}
HighOf(t) == {b \in DOMAIN darkness : darkness[b] > t}

\* the sum of the scores of a set of measured borders
RECURSIVE ScoreSum(_)
ScoreSum(S) ==
    IF S = {} THEN 0
    ELSE LET b == CHOOSE x \in S : TRUE IN darkness[b] + ScoreSum(S \ {b})

\* |lo| * |hi| * (mean(hi) - mean(lo))^2 as the fraction SplitNum / SplitDen
SplitNum(t) ==
    LET a == ScoreSum(HighOf(t)) * Cardinality(LowOf(t))
             - ScoreSum(LowOf(t)) * Cardinality(HighOf(t))
    IN  a * a
SplitDen(t) == Cardinality(LowOf(t)) * Cardinality(HighOf(t))

\* the observed scores that leave a border on either side
Splits == {t \in {darkness[b] : b \in DOMAIN darkness} : HighOf(t) # {}}

\* t separates at least as well as u, and better
SplitsAsWell(t, u) == SplitNum(t) * SplitDen(u) >= SplitNum(u) * SplitDen(t)
SplitsBetter(t, u) == SplitNum(t) * SplitDen(u) > SplitNum(u) * SplitDen(t)

\* C22: when the measured scores are not all equal, the borders marked thick
\* are those above the larger of 3 and the observed score that, with a border
\* on either side, maximises |lo| * |hi| * (mean(hi) - mean(lo))^2, the
\* smallest such score on ties; when all scores are equal no border is thick.
C22_ThresholdIsFirstBestSplit ==
    (pc # "classify" /\ DOMAIN darkness # {}) =>
        IF Splits = {}
        THEN \A b \in DOMAIN darkness : ~IsThick(b)
        ELSE \E t \in Splits :
                /\ \A u \in Splits : SplitsAsWell(t, u)
                /\ \A u \in Splits : u < t => SplitsBetter(t, u)
                /\ \A b \in DOMAIN darkness :
                       IsThick(b) <=> darkness[b] > Max2(t, BorderFloor)

\* C22 witness: scores 3, 4 and 5 in equal numbers, which 3 and 4 separate
\* equally well; the borders above 3 are thick.
C22_Witness ==
    /\ pc = "cages"
    /\ {darkness[b] : b \in DOMAIN darkness} = {3, 4, 5}
    /\ SplitsAsWell(3, 4) /\ SplitsAsWell(4, 3)
    /\ \A b \in DOMAIN darkness : IsThick(b) <=> darkness[b] > 3

\* ------------------------------------------------ claims: the border keys

\* the lines are strictly increasing, start at 0 or later, and are 10 pixels
\* or more apart on average
LatticeOk(pos) ==
    /\ Len(pos) = n + 1 /\ pos[1] >= 0
    /\ \A i \in 1..n : pos[i] < pos[i + 1]
    /\ pos[n + 1] - pos[1] >= 10 * n

\* C23: on lines that are strictly increasing and 10 pixels or more apart,
\* the maps _classify_borders returns have a key for every inner border
\* and no other key.
C23_EveryInnerBorderHasAKey ==
    (pc # "classify" /\ LatticeOk(h_pos) /\ LatticeOk(v_pos)) =>
        /\ DOMAIN h_thick = HKeys(n)
        /\ DOMAIN v_thick = VKeys(n)

\* the index of the cage of a cell
CageOf(cell) == CHOOSE i \in 1..Len(cages) : \E j \in 1..Len(cages[i]) : cages[i][j] = cell

\* the two cells a border lies between
Sides(b) ==
    IF b[1] = "h" THEN <<<<b[2][1] - 1, b[2][2]>>, b[2]>>
    ELSE <<<<b[2][1], b[2][2] - 1>>, b[2]>>

\* C24: once the cages are grouped, a border classified thick lies between
\* two cells of different cages and a border classified thin between two
\* cells of the same cage.
C24_ThickIffBetweenTwoCages ==
    pc = "tesseract" =>
        \A b \in DOMAIN darkness :
            IsThick(b) <=> CageOf(Sides(b)[1]) # CageOf(Sides(b)[2])

\* ------------------------------------------- claims: the recovery passes

\* the cages of two cells or more whose label in res has an operator, ?
\* included, and those whose label has none
MultiWithOp(res) == {i \in 1..Len(res) : Len(cages[i]) > 1 /\ res[i][2] \in OutputOps}
MultiWithoutOp(res) == {i \in 1..Len(res) : Len(cages[i]) > 1 /\ res[i][2] \notin OutputOps}

\* C25: when the first pass and the two-digit retry end, pass 2 is entered
\* iff more cages of two cells or more have an operator than have none, as
\* the labels stand then; otherwise the labels go to the document as they
\* are, and nothing after pass 2 changes a label.
C25_OperatorsShownDecidedOnce ==
    [][/\ (pc \in {"read", "pass1"} /\ pc' \notin {"read", "pass1"}) =>
            IF Cardinality(MultiWithOp(results')) > Cardinality(MultiWithoutOp(results'))
            THEN pc' = "pass2" ELSE pc' = "assemble"
       /\ pc = "pass2" => pc' \in {"pass2", "assemble"}
       /\ pc \in {"assemble", "write"} => results' = results]_vars

\* C25 witness: a tie, one cage of two cells or more with an operator and
\* one without; the label 80 without operator reached the document stage
\* unchanged.
C25_Witness ==
    /\ pc = "assemble"
    /\ Cardinality(MultiWithOp(results)) = 1
    /\ Cardinality(MultiWithoutOp(results)) = 1
    /\ \E i \in MultiWithoutOp(results) : results[i] = <<<<"8", "0">>, None>>

\* the operator a retry read, None for none, its digits, and whether the
\* text is digits and commas after a first digit, with or without operator
ReadOp(out) ==
    IF Len(out[2]) > 0 /\ out[2][Len(out[2])] \in LabelOps THEN out[2][Len(out[2])] ELSE None
ReadDigits(out) ==
    IF ReadOp(out) # None THEN SubSeq(out[2], 1, Len(out[2]) - 1) ELSE out[2]
ReadParses(out) ==
    /\ out # Skipped
    /\ Len(ReadDigits(out)) > 0 /\ IsReDigit(ReadDigits(out)[1])
    /\ \A i \in 1..Len(ReadDigits(out)) :
           IsReDigit(ReadDigits(out)[i]) \/ ReadDigits(out)[i] = ","

\* the retries of strategy 2 that read one of + - x / and, when the value
\* has one or two characters, the digits of the value
OperatorRetriesTaken ==
    {k \in 1..Len(retry_reads) :
        /\ ReadParses(retry_reads[k])
        /\ ReadOp(retry_reads[k]) \in {"+", "-", "x", "/"}
        /\ Len(results[1][1]) <= 2 => ReadDigits(retry_reads[k]) = results[1][1]}

\* C26: strategy 2 goes through its retries in order and stops at the first
\* that reads one of + - x / and, for a value of one or two characters, the
\* same digits; the label becomes that reading and the later retries are
\* not made; with no such retry the label stays for strategy 3. So the
\* operator ? is never attached and a short value keeps its digits.
C26_FirstRetryWithRealOperator ==
    [][pc = "strategy2" =>
          /\ IF OperatorRetriesTaken = {}
             THEN results' = results /\ retry_reads' = <<>> /\ pc' = "strategy3"
             ELSE LET k == CHOOSE x \in OperatorRetriesTaken :
                               \A y \in OperatorRetriesTaken : x <= y
                  IN  /\ results' = <<<<ReadDigits(retry_reads[k]), ReadOp(retry_reads[k])>>>>
                      /\ retry_reads' = SubSeq(retry_reads, k + 1, Len(retry_reads))
                      /\ pc' = "found"
          /\ results'[1][2] # "?"
          /\ Len(results[1][1]) <= 2 => results'[1][1] = results[1][1]]_vars

\* C26 witness: the third retry was the first taken, 8 with -, and the three
\* retries at 6x, the next of which would have read 8 with that operator
\* too, were not made.
C26_Witness ==
    /\ pc = "found" /\ results = <<<<<<"8">>, "-">>>>
    /\ Len(retry_reads) = 3 /\ retry_reads[1] = Answered(<<"8", "-">>)

\* the retries of pass 1 that read more digits than the value has and no
\* operator other than the one of the label
TwoDigitRetriesTaken ==
    IF Len(results[1][1]) # 2 THEN {}
    ELSE {k \in 1..Len(retry_reads) :
            /\ ReadParses(retry_reads[k])
            /\ Len(ReadDigits(retry_reads[k])) > 2
            /\ \/ results[1][2] = None
               \/ ReadOp(retry_reads[k]) \in {None, results[1][2]}}

\* C27: pass 1 changes a label only when its value has two characters, to
\* the first retry that reads more digits and no other operator than the
\* label has; the operator of the label stays, a missing one is taken from
\* the retry; a label of another length is left as it is.
C27_TwoDigitRetryKeepsOperator ==
    [][pc = "two_digit" =>
          /\ IF TwoDigitRetriesTaken = {}
             THEN results' = results
             ELSE LET k == CHOOSE x \in TwoDigitRetriesTaken :
                               \A y \in TwoDigitRetriesTaken : x <= y
                  IN  /\ results'[1][1] = ReadDigits(retry_reads[k])
                      /\ results'[1][2] = IF ReadOp(retry_reads[k]) # None
                                          THEN ReadOp(retry_reads[k]) ELSE results[1][2]
                      /\ retry_reads' = SubSeq(retry_reads, k + 1, Len(retry_reads))
          /\ results[1][2] # None => results'[1][2] = results[1][2]
          /\ results' # results =>
                 Len(results[1][1]) = 2 /\ Len(results'[1][1]) > 2]_vars

\* C27 witness: the label 12 with - met a first retry that was not taken
\* and a second that read 1,2 without operator; it became 1,2 with -, a
\* label no reading gives.
C27_Witness ==
    /\ pc = "two_digit_done" /\ results = <<<<<<"1", ",", "2">>, "-">>>>
    /\ Len(retry_reads) = 0

\* ------------------------------------------ claims: the lattice returned

\* the lines pos lie within 0..extent and are 10 pixels or more apart on
\* average
WithinAndSpaced(pos, extent) ==
    /\ pos[1] >= 0 /\ pos[Len(pos)] <= extent
    /\ pos[Len(pos)] - pos[1] >= 10 * n

\* C28: the lines _detect_size_and_lines returns, with a forced size or
\* without, start at 0 or later, end at the extent of their axis or before,
\* and are 10 pixels or more apart on average, on both axes.
C28_ReturnedLatticeIsSpaced ==
    pc = "borders" =>
        /\ WithinAndSpaced(h_pos, gh)
        /\ WithinAndSpaced(v_pos, gw)

\* ------------------------------------------------ claims: the values

\* C29: no cage of the document has the value 0, as a number or as the
\* text 0.
C29_NoEmittedValueIsZero ==
    pc = "write" =>
        \A k \in 1..Len(doc[1].cages) :
            doc[1].cages[k].value \notin {<<"int", 0>>, <<"str", <<"0">>>>}

\* ------------------------------------------- claims: the cell references

\* the reference the document holds
TheRef == doc[1].cages[1].cells[1]

\* the reference is a capital letter followed by digits only
IsLetterAndNumber(ref) ==
    /\ Len(ref) >= 2
    /\ \E i \in 1..26 : AsciiUpper[i] = ref[1]
    /\ \A i \in 2..Len(ref) : ref[i] \in AsciiDigits

\* the column and the row such a reference names, counted from 0
NamedColumn(ref) == (CHOOSE i \in 1..26 : AsciiUpper[i] = ref[1]) - 1
NamedRow(ref) == int_of(SubSeq(ref, 2, Len(ref))) - 1

\* C30: for a cell (r, c) of a grid of n in 4..9, the reference _cell_a1
\* writes is the letter of column c followed by r + 1, no other cell of the
\* grid has that reference, and _parse_cell reads it back as (r, c) without
\* raising; a reference that names a row or a column outside 0..n-1 makes
\* _parse_cell raise.
C30_CellReferencesRoundTrip ==
    /\ (cages # <<>> /\ doc # <<>>) =>
          LET r == cages[1][1][1]
              c == cages[1][1][2]
          IN  /\ IsLetterAndNumber(TheRef)
              /\ NamedColumn(TheRef) = c
              /\ NamedRow(TheRef) = r
              /\ \A r2 \in 0..(n - 1), c2 \in 0..(n - 1) :
                    cell_a1(r2, c2) = TheRef => <<r2, c2>> = <<r, c>>
              /\ pc # "parse_cell" => pc = "parsed" /\ parsed = <<<<r, c>>>> /\ err = ""
    /\ (pc \in {"parsed", "exit"} /\ IsLetterAndNumber(TheRef)
           /\ ~(/\ NamedRow(TheRef) \in 0..(doc[1].size - 1)
                /\ NamedColumn(TheRef) \in 0..(doc[1].size - 1))) =>
          pc = "exit" /\ err = "ValueError" /\ parsed = <<>>

\* C30 witness: the last cell of a grid of 9 was written as I9 and read back
\* as (8, 8).
C30_Witness ==
    /\ pc = "parsed" /\ n = MaxN /\ cages = <<<<<<8, 8>>>>>>
    /\ TheRef = <<"I", "9">> /\ parsed = <<<<8, 8>>>>

====
